---- MODULE Spec2Model ----
(***************************************************************************)
(* Workflow automation of the podcast task manager                         *)
(* (backend/services/workflow_automation.py) together with the two API     *)
(* handlers that drive it (api/tasks.py update_task, api/episodes.py       *)
(* update_episode).                                                        *)
(*                                                                         *)
(* The store is the record db: the episodes table (a function from the     *)
(* episode id to the row), the tasks table (a set of rows, each with its   *)
(* own id) and the next fresh task id.  Time is counted in hours.          *)
(***************************************************************************)
EXTENDS Integers, FiniteSets, Sequences, TLC

VARIABLES db, now, last, steps

vars == <<db, now, last, steps>>

(***************************************************************************)
(* Bounds of the model.                                                    *)
(***************************************************************************)
MaxSteps == 4
MaxNow == 30

(***************************************************************************)
(* Program constants.                                                      *)
(***************************************************************************)
HOUR == 1
DAY == 24
EDIT_DUE_DAYS == 2

\* A nullable column holding None.
Null == 0 - 1
\* A field absent from a partial update (pydantic exclude_unset).
Unset == "unset"
UnsetTime == 0 - 2

\* The ids of the episodes on file.
EpisodeIds == {1, 2}
UserIds == {1, 2}

\* models.EpisodeStatus
EpisodeStatuses == {"not_started", "recorded", "in_editing", "sent_to_client", "published"}
\* models.TaskType
TaskTypes == {"recording", "editing", "reels", "publishing", "studio_preparation"}
\* models.TaskStatus
TaskStatuses == {"not_started", "in_progress", "blocked", "sent_to_client", "done", "skipped"}
\* Episode.client_approved_editing / client_approved_reels
Approvals == {"pending", "approved", "rejected"}

(***************************************************************************)
(* Queries on the store.                                                   *)
(***************************************************************************)
\* db.query(Task).filter(episode_id == e, type == ty)
TasksOf(d, e, ty) == {t \in d.tasks : t.episode_id = e /\ t.type = ty}

\* Query.first(): the rows come back in insertion order.
First(S) == CHOOSE t \in S : \A u \in S : t.id <= u.id

TaskById(d, id) == CHOOSE t \in d.tasks : t.id = id

TaskIds(d) == {t.id : t \in d.tasks}

\* db.add(Task(...)); db.commit(); db.refresh(task); return task
AddTask(d, e, ty, assignee, due) ==
    [db |-> [d EXCEPT !.tasks = @ \cup {[id |-> d.nextId,
                                         episode_id |-> e,
                                         type |-> ty,
                                         status |-> "not_started",
                                         assigned_to |-> assignee,
                                         due_date |-> due,
                                         completed_at |-> Null]},
                      !.nextId = @ + 1],
     ret |-> d.nextId]

\* Mutant: a due date in the past is kept.
ClampToNow_never(due, t) == due

\* "if due_date < now_compare: due_date = now"
ClampToNow(due, t) == IF due < t THEN t ELSE due

(***************************************************************************)
(* Task creation.  Each function returns the new store and the id of the   *)
(* task it returns (Null for None).                                        *)
(***************************************************************************)
create_studio_preparation_task(d, e, t) ==
    LET existing == TasksOf(d, e, "studio_preparation")
        ep == d.episodes[e]
        due == IF ep.recording_date # Null
               THEN ClampToNow(ep.recording_date - HOUR, t)
               ELSE Null
    IN  IF existing # {}
        THEN [db |-> d, ret |-> First(existing).id]
        ELSE AddTask(d, e, "studio_preparation", ep.recording_engineer_id, due)

\* Mutant: the recording task goes to the editing engineer.
create_recording_task_wrong_engineer(d, e, t) ==
    LET existing == TasksOf(d, e, "recording")
        ep == d.episodes[e]
        due == IF ep.recording_date # Null
               THEN ClampToNow(ep.recording_date, t)
               ELSE Null
    IN  IF existing # {}
        THEN [db |-> d, ret |-> First(existing).id]
        ELSE AddTask(d, e, "recording", ep.editing_engineer_id, due)

create_recording_task(d, e, t) ==
    LET existing == TasksOf(d, e, "recording")
        ep == d.episodes[e]
        due == IF ep.recording_date # Null
               THEN ClampToNow(ep.recording_date, t)
               ELSE Null
    IN  IF existing # {}
        THEN [db |-> d, ret |-> First(existing).id]
        ELSE AddTask(d, e, "recording", ep.recording_engineer_id, due)

\* Mutant: no look-up of an existing editing task.
create_editing_task_no_lookup(d, e) ==
    LET ep == d.episodes[e]
        due == IF ep.recording_date # Null
               THEN ep.recording_date + EDIT_DUE_DAYS * DAY
               ELSE Null
    IN  AddTask(d, e, "editing", ep.editing_engineer_id, due)

create_editing_task(d, e) ==
    LET existing == TasksOf(d, e, "editing")
        ep == d.episodes[e]
        due == IF ep.recording_date # Null
               THEN ep.recording_date + EDIT_DUE_DAYS * DAY
               ELSE Null
    IN  IF existing # {}
        THEN [db |-> d, ret |-> First(existing).id]
        ELSE AddTask(d, e, "editing", ep.editing_engineer_id, due)

\* Mutant: the look-up asks for the wrong task type (editing), so a second
\* call creates a second reels task.
create_reels_task_wrong_lookup(d, e) ==
    LET existing == TasksOf(d, e, "editing")
        ep == d.episodes[e]
        due == IF ep.recording_date # Null
               THEN ep.recording_date + EDIT_DUE_DAYS * DAY
               ELSE Null
    IN  IF existing # {}
        THEN [db |-> d, ret |-> First(existing).id]
        ELSE AddTask(d, e, "reels", ep.reels_engineer_id, due)

create_reels_task(d, e) ==
    LET existing == TasksOf(d, e, "reels")
        ep == d.episodes[e]
        due == IF ep.recording_date # Null
               THEN ep.recording_date + EDIT_DUE_DAYS * DAY
               ELSE Null
    IN  IF existing # {}
        THEN [db |-> d, ret |-> First(existing).id]
        ELSE AddTask(d, e, "reels", ep.reels_engineer_id, due)

\* Mutant: a publishing task is withdrawn when an approval is missing.
create_publishing_task_withdraws(d, e) ==
    LET existing == TasksOf(d, e, "publishing")
        ep == d.episodes[e]
    IN  IF ep.client_approved_editing = "approved"
           /\ ep.client_approved_reels = "approved"
        THEN IF existing # {}
             THEN [db |-> d, ret |-> First(existing).id]
             ELSE AddTask(d, e, "publishing", Null, Null)
        ELSE [db |-> [d EXCEPT !.tasks = @ \ existing], ret |-> Null]

\* Mutant: the approvals are not looked at.
create_publishing_task_ungated(d, e) ==
    LET existing == TasksOf(d, e, "publishing")
    IN  IF existing # {}
        THEN [db |-> d, ret |-> First(existing).id]
        ELSE AddTask(d, e, "publishing", Null, Null)

create_publishing_task(d, e) ==
    LET existing == TasksOf(d, e, "publishing")
        ep == d.episodes[e]
    IN  IF existing # {}
        THEN [db |-> d, ret |-> First(existing).id]
        ELSE IF ep.client_approved_editing = "approved"
                /\ ep.client_approved_reels = "approved"
             THEN AddTask(d, e, "publishing", Null, Null)
             ELSE [db |-> d, ret |-> Null]

(***************************************************************************)
(* Status automation.  These return the new store.                         *)
(***************************************************************************)
\* Replace the row t of the tasks table by the row u.
SetTask(d, t, u) == [d EXCEPT !.tasks = (@ \ {t}) \cup {u}]

\* Mutant: the look-up of the open studio preparation forgets the episode.
auto_complete_any_episode(d, e, t) ==
    LET open == {x \in d.tasks : x.type = "studio_preparation" /\ x.status # "done"}
    IN  IF open # {}
        THEN LET task == First(open)
             IN  SetTask(d, task, [task EXCEPT !.status = "done", !.completed_at = t])
        ELSE d

\* Mutant: only a studio preparation that is in progress is completed.
auto_complete_in_progress_only(d, e, t) ==
    LET open == {x \in TasksOf(d, e, "studio_preparation") : x.status = "in_progress"}
    IN  IF open # {}
        THEN LET task == First(open)
             IN  SetTask(d, task, [task EXCEPT !.status = "done", !.completed_at = t])
        ELSE d

auto_complete_studio_preparation(d, e, t) ==
    LET open == {x \in TasksOf(d, e, "studio_preparation") : x.status # "done"}
    IN  IF open # {}
        THEN LET task == First(open)
             IN  SetTask(d, task, [task EXCEPT !.status = "done", !.completed_at = t])
        ELSE d

\* Mutant: an approval marks the task done without a completion timestamp.
SyncRow_no_timestamp(task, approval, t) ==
    IF approval = "approved"
    THEN IF task.status # "done"
         THEN [task EXCEPT !.status = "done"]
         ELSE task
    ELSE IF approval = "rejected"
         THEN IF task.status \in {"done", "sent_to_client"}
              THEN [task EXCEPT !.status = "in_progress", !.completed_at = Null]
              ELSE task
         ELSE task

\* Mutant: a rejection reopens a done task only, not one sent to the client.
SyncRow_reject_done_only(task, approval, t) ==
    IF approval = "approved"
    THEN IF task.status # "done"
         THEN [task EXCEPT !.status = "done", !.completed_at = t]
         ELSE task
    ELSE IF approval = "rejected"
         THEN IF task.status = "done"
              THEN [task EXCEPT !.status = "in_progress", !.completed_at = Null]
              ELSE task
         ELSE task

\* The rule shared by sync_editing_task_status and sync_reels_task_status.
SyncRow(task, approval, t) ==
    IF approval = "approved"
    THEN IF task.status # "done"
         THEN [task EXCEPT !.status = "done", !.completed_at = t]
         ELSE task
    ELSE IF approval = "rejected"
         THEN IF task.status \in {"done", "sent_to_client"}
              THEN [task EXCEPT !.status = "in_progress", !.completed_at = Null]
              ELSE task
         ELSE task

sync_editing_task_status(d, e, t) ==
    LET found == TasksOf(d, e, "editing")
    IN  IF found # {}
        THEN LET task == First(found)
             IN  SetTask(d, task, SyncRow(task, d.episodes[e].client_approved_editing, t))
        ELSE d

sync_reels_task_status(d, e, t) ==
    LET found == TasksOf(d, e, "reels")
    IN  IF found # {}
        THEN LET task == First(found)
             IN  SetTask(d, task, SyncRow(task, d.episodes[e].client_approved_reels, t))
        ELSE d

\* Mutant: a task that is done is never stale.
StaleTasks_open_only(d, t) ==
    {x \in d.tasks : /\ x.type = "studio_preparation"
                     /\ x.status # "done"
                     /\ x.due_date # Null
                     /\ x.due_date < t - DAY}

\* The rows the stale-task deletion removes at time t.
StaleTasks(d, t) ==
    {x \in d.tasks : /\ x.type = "studio_preparation"
                     /\ x.due_date # Null
                     /\ x.due_date < t - DAY}

delete_stale_studio_preparation_tasks(d, t) ==
    [db |-> [d EXCEPT !.tasks = @ \ StaleTasks(d, t)],
     ret |-> Cardinality(StaleTasks(d, t))]

\* Mutant: the status of the episode is not looked at.
process_episode_status_change_any_status(d, e, t) ==
    LET d1 == LET a == auto_complete_studio_preparation(d, e, t)
                  b == create_editing_task(a, e).db
              IN  create_reels_task(b, e).db
        d2 == sync_editing_task_status(d1, e, t)
        d3 == sync_reels_task_status(d2, e, t)
    IN  create_publishing_task(d3, e).db

process_episode_status_change(d, e, t) ==
    LET d1 == IF d.episodes[e].status = "recorded"
              THEN LET a == auto_complete_studio_preparation(d, e, t)
                       b == create_editing_task(a, e).db
                   IN  create_reels_task(b, e).db
              ELSE d
        d2 == sync_editing_task_status(d1, e, t)
        d3 == sync_reels_task_status(d2, e, t)
    IN  create_publishing_task(d3, e).db

\* Mutant: the old status is not looked at.
process_task_status_change_any_old(d, id, old_status, t) ==
    LET task == TaskById(d, id)
        e == task.episode_id
    IN  IF task.status # "done" THEN d
        ELSE IF e \notin DOMAIN d.episodes THEN d
        ELSE IF task.type = "studio_preparation"
             THEN create_recording_task(d, e, t).db
        ELSE IF task.type = "recording"
             THEN process_episode_status_change(
                      [d EXCEPT !.episodes[e].status = "recorded"], e, t)
        ELSE d

process_task_status_change(d, id, old_status, t) ==
    LET task == TaskById(d, id)
        e == task.episode_id
    IN  IF old_status = "done" THEN d
        ELSE IF task.status # "done" THEN d
        ELSE IF e \notin DOMAIN d.episodes THEN d
        ELSE IF task.type = "studio_preparation"
             THEN create_recording_task(d, e, t).db
        ELSE IF task.type = "recording"
             THEN process_episode_status_change(
                      [d EXCEPT !.episodes[e].status = "recorded"], e, t)
        ELSE d

(***************************************************************************)
(* Text.  A string is a sequence of characters, each character a           *)
(* one-character string; the Hebrew letters and the en dash the title      *)
(* parser looks for are written by name ("vav", "pe", "resh", "qof",       *)
(* "alef", "het", "yod", "finalmem", "endash").  None is NoneStr where the *)
(* column or the dictionary entry holds text.                              *)
(***************************************************************************)
NoneStr == <<"None">>

\* A statement sequence: F applied to the value of v, which is evaluated
\* once, the way Python evaluates the right-hand side of an assignment.
Bind(v, F(_)) == CHOOSE y \in {F(x) : x \in {v}} : TRUE

\* Python truthiness of an optional string: neither None nor "".
Truthy(s) == s # NoneStr /\ s # <<>>

Digits == <<"0", "1", "2", "3", "4", "5", "6", "7", "8", "9">>
Uppers == <<"A", "B", "C", "D", "E", "F", "G", "H", "I", "J", "K", "L", "M",
            "N", "O", "P", "Q", "R", "S", "T", "U", "V", "W", "X", "Y", "Z">>
Lowers == <<"a", "b", "c", "d", "e", "f", "g", "h", "i", "j", "k", "l", "m",
            "n", "o", "p", "q", "r", "s", "t", "u", "v", "w", "x", "y", "z">>

\* \d and \s of the re module.
IsDigit(c) == \E i \in DOMAIN Digits : Digits[i] = c
IsSpace(c) == c \in {" ", "\n", "\t"}

\* str.lower() of one character.
Lower(c) ==
    IF \E i \in DOMAIN Uppers : Uppers[i] = c
    THEN Lowers[CHOOSE i \in DOMAIN Uppers : Uppers[i] = c]
    ELSE c

\* str.lower()
LowerStr(s) == [i \in 1..Len(s) |-> Lower(s[i])]

\* str.strip()
Strip(s) ==
    LET kept == {i \in 1..Len(s) : ~IsSpace(s[i])}
    IN  IF kept = {} THEN <<>>
        ELSE SubSeq(s, CHOOSE i \in kept : \A j \in kept : i <= j,
                       CHOOSE i \in kept : \A j \in kept : i >= j)

\* "needle in haystack" of Python.
Contains(haystack, needle) ==
    \E i \in 1..(Len(haystack) - Len(needle) + 1) :
        SubSeq(haystack, i, i + Len(needle) - 1) = needle

\* int(g) and str(n) for a run of decimal digits.
RECURSIVE IntOf(_)
IntOf(g) ==
    IF g = <<>> THEN 0
    ELSE 10 * IntOf(SubSeq(g, 1, Len(g) - 1))
         + (CHOOSE i \in DOMAIN Digits : Digits[i] = g[Len(g)]) - 1

RECURSIVE StrOf(_)
StrOf(n) ==
    IF n < 10 THEN <<Digits[n + 1]>>
    ELSE StrOf(n \div 10) \o <<Digits[(n % 10) + 1]>>

\* SQL LIKE: % stands for any run of characters, _ for any one character.
RECURSIVE LikeMatch(_, _)
LikeMatch(pattern, s) ==
    IF pattern = <<>> THEN s = <<>>
    ELSE IF Head(pattern) = "%"
         THEN LikeMatch(Tail(pattern), s) \/ (s # <<>> /\ LikeMatch(pattern, Tail(s)))
         ELSE /\ s # <<>>
              /\ (Head(pattern) = "_" \/ Head(pattern) = Head(s))
              /\ LikeMatch(Tail(pattern), Tail(s))

\* Column.ilike(pattern): LIKE without regard to letter case.
ILike(value, pattern) == LikeMatch(LowerStr(pattern), LowerStr(value))

(***************************************************************************)
(* Regular-expression matching as re does it: leftmost match, greedy       *)
(* quantifiers.  A position is an index into the string; Len(s) + 1 is     *)
(* the end.                                                                *)
(***************************************************************************)
\* The end of the longest run of digits (of blanks) that starts at i.
DigitsEnd(s, i) ==
    CHOOSE j \in i..(Len(s) + 1) :
        /\ \A k \in i..(j - 1) : IsDigit(s[k])
        /\ j = Len(s) + 1 \/ ~IsDigit(s[j])

SpacesEnd(s, i) ==
    CHOOSE j \in i..(Len(s) + 1) :
        /\ \A k \in i..(j - 1) : IsSpace(s[k])
        /\ j = Len(s) + 1 \/ ~IsSpace(s[j])

\* The literal lit (given in lower case) stands at position i of s, letter
\* case ignored (re.IGNORECASE).
LitAt(s, i, lit) ==
    /\ i >= 1
    /\ i + Len(lit) - 1 <= Len(s)
    /\ \A k \in 1..Len(lit) : Lower(s[i + k - 1]) = lit[k]

NoMatch == [ok |-> FALSE, g1 |-> <<>>, g2 |-> <<>>, end |-> 0]

\* The end of the separator of a two-number pattern at position j, 0 when
\* there is none: "multi" is (?:&|and|,|/), "range" is -, "vav" is vav-? .
SepEnd(kind, s, j) ==
    IF j > Len(s) THEN 0
    ELSE IF kind = "multi"
         THEN IF s[j] \in {"&", ",", "/"} THEN j + 1
              ELSE IF LitAt(s, j, <<"a", "n", "d">>) THEN j + 3
              ELSE 0
    ELSE IF kind = "range"
         THEN IF s[j] = "-" THEN j + 1 ELSE 0
    ELSE IF s[j] = "vav"
         THEN IF j + 1 <= Len(s) /\ s[j + 1] = "-" THEN j + 2 ELSE j + 1
         ELSE 0

\* (\d+)\s*SEP\s*(\d+) tried at position i.
PairAt(kind, s, i) ==
    IF i > Len(s) \/ ~IsDigit(s[i]) THEN NoMatch
    ELSE LET a == DigitsEnd(s, i)
             c == SepEnd(kind, s, SpacesEnd(s, a))
         IN  IF c = 0 THEN NoMatch
             ELSE LET d == SpacesEnd(s, c)
                      e == DigitsEnd(s, d)
                  IN  IF e = d THEN NoMatch
                      ELSE [ok |-> TRUE, g1 |-> SubSeq(s, i, a - 1),
                            g2 |-> SubSeq(s, d, e - 1), end |-> e]

\* re.finditer of a two-number pattern from position pos on.
RECURSIVE PairMatches(_, _, _)
PairMatches(kind, s, pos) ==
    IF pos > Len(s) THEN <<>>
    ELSE LET m == PairAt(kind, s, pos)
         IN  IF m.ok THEN <<m>> \o PairMatches(kind, s, m.end)
             ELSE PairMatches(kind, s, pos + 1)

\* The labels of (?:pe-resh-qof|#|episode|ep), in the order re tries them.
EpisodeLabels ==
    <<<<"pe", "resh", "qof">>, <<"#">>,
      <<"e", "p", "i", "s", "o", "d", "e">>, <<"e", "p">>>>

\* LABEL\s*(\d+) tried at position i with one label.
LabelWith(s, i, lit) ==
    IF ~LitAt(s, i, lit) THEN NoMatch
    ELSE LET b == SpacesEnd(s, i + Len(lit))
             e == DigitsEnd(s, b)
         IN  IF e = b THEN NoMatch
             ELSE [ok |-> TRUE, g1 |-> SubSeq(s, b, e - 1), g2 |-> <<>>, end |-> e]

LabelAt(s, i) ==
    IF \E n \in DOMAIN EpisodeLabels : LabelWith(s, i, EpisodeLabels[n]).ok
    THEN LabelWith(s, i, EpisodeLabels[CHOOSE n \in DOMAIN EpisodeLabels :
                            /\ LabelWith(s, i, EpisodeLabels[n]).ok
                            /\ \A m \in 1..(n - 1) :
                                  ~LabelWith(s, i, EpisodeLabels[m]).ok])
    ELSE NoMatch

RECURSIVE LabelMatches(_, _)
LabelMatches(s, pos) ==
    IF pos > Len(s) THEN <<>>
    ELSE LET m == LabelAt(s, pos)
         IN  IF m.ok THEN <<m>> \o LabelMatches(s, m.end)
             ELSE LabelMatches(s, pos + 1)

\* The number a title ends with, for the two end-of-title patterns
\* [-endash]\s*(\d+)\s*$ and \s+(\d+)\s*$ : the digits before the trailing
\* blanks, when a dash and blanks, or at least one blank, stand before them.
TrailingNumber(s) ==
    LET kept == {i \in 1..Len(s) : ~IsSpace(s[i])}
        e == IF kept = {} THEN 0 ELSE CHOOSE i \in kept : \A j \in kept : i >= j
        r == CHOOSE i \in 1..(e + 1) :
                 /\ \A k \in i..e : IsDigit(s[k])
                 /\ i = 1 \/ ~IsDigit(s[i - 1])
        before == {i \in 1..(r - 1) : ~IsSpace(s[i])}
        q == IF before = {} THEN 0 ELSE CHOOSE i \in before : \A j \in before : i >= j
    IN  IF r > e THEN NoMatch
        ELSE IF q >= 1 /\ s[q] \in {"-", "endash"}
             THEN [ok |-> TRUE, g1 |-> SubSeq(s, r, e), g2 |-> <<>>, end |-> Len(s) + 1]
        ELSE IF r > 1 /\ IsSpace(s[r - 1])
             THEN [ok |-> TRUE, g1 |-> SubSeq(s, r, e), g2 |-> <<>>, end |-> Len(s) + 1]
        ELSE NoMatch

(***************************************************************************)
(* Matching with backtracking, for the patterns that re.sub anchors at the *)
(* end of the title: a piece of a pattern takes the set of positions the   *)
(* match may have reached to the set it may reach next.                    *)
(***************************************************************************)
\* \s* , \s+ and \d+
Spaces0(s, P) ==
    {j \in 1..(Len(s) + 1) : \E p \in P : p <= j /\ \A k \in p..(j - 1) : IsSpace(s[k])}

Spaces1(s, P) ==
    {j \in 1..(Len(s) + 1) : \E p \in P : p < j /\ \A k \in p..(j - 1) : IsSpace(s[k])}

Digits1(s, P) ==
    {j \in 1..(Len(s) + 1) : \E p \in P : p < j /\ \A k \in p..(j - 1) : IsDigit(s[k])}

\* One character of the class C, and a literal (letter case ignored).
OneOf(s, P, C) == {p + 1 : p \in {q \in P : q <= Len(s) /\ s[q] \in C}}

Literal(s, P, lit) == {p + Len(lit) : p \in {q \in P : LitAt(s, q, lit)}}

\* .* : any run of characters other than the newline.
DotStar(s, P) ==
    {j \in 1..(Len(s) + 1) : \E p \in P : p <= j /\ \A k \in p..(j - 1) : s[k] # "\n"}

\* $ : the end of the string, or the place before a newline that ends it.
AtEnd(s, P) == {p \in P : p = Len(s) + 1 \/ (p = Len(s) /\ s[p] = "\n")}

\* The repeated groups of the suffix patterns: (\s*[&,/\-]\s*\d+),
\* (\s*vav-?\s*\d+) and (\s*#\d+).
Group(kind, s, P) ==
    IF kind = "sep"
    THEN Digits1(s, Spaces0(s, OneOf(s, Spaces0(s, P), {"&", ",", "/", "-"})))
    ELSE IF kind = "vav"
    THEN Digits1(s, Spaces0(s, OneOf(s, OneOf(s, Spaces0(s, P), {"vav"}), {"-"})
                                  \cup OneOf(s, Spaces0(s, P), {"vav"})))
    ELSE Digits1(s, OneOf(s, Spaces0(s, P), {"#"}))

\* (group)*
RECURSIVE GroupStar(_, _, _)
GroupStar(kind, s, P) ==
    Bind(P \cup Group(kind, s, P), LAMBDA Q :
        IF Q = P THEN P ELSE GroupStar(kind, s, Q))

\* Where a match of the n-th suffix pattern that starts at i may end.
SuffixEnds(n, s, i) ==
    IF n = 1
    THEN AtEnd(s, Spaces0(s, GroupStar("sep", s,
             Digits1(s, Spaces0(s, OneOf(s, Spaces0(s, {i}), {"-", "endash"}))))))
    ELSE IF n = 2
    THEN AtEnd(s, Spaces0(s, GroupStar("vav", s,
             Digits1(s, Spaces1(s, Literal(s, Spaces1(s, {i}), <<"pe", "resh", "qof">>))))))
    ELSE IF n = 3
    THEN AtEnd(s, Spaces0(s, GroupStar("hash", s,
             Digits1(s, OneOf(s, Spaces0(s, {i}), {"#"})))))
    ELSE IF n = 4
    THEN AtEnd(s, DotStar(s, Digits1(s, Spaces1(s,
             Literal(s, Spaces1(s, {i}), <<"e", "p", "i", "s", "o", "d", "e">>)))))
    ELSE IF n = 5
    THEN AtEnd(s, DotStar(s, Digits1(s, Spaces1(s,
             Literal(s, Spaces1(s, {i}), <<"e", "p">>)))))
    ELSE AtEnd(s, Spaces0(s, GroupStar("sep", s, Digits1(s, Spaces1(s, {i})))))

\* re.sub(suffix, '', name): the leftmost match is cut out; it reaches as
\* far as the greedy pattern can, and nothing after it can match again.
CutSuffix(n, s) ==
    Bind({i \in 1..(Len(s) + 1) : SuffixEnds(n, s, i) # {}}, LAMBDA starts :
        IF starts = {} THEN s
        ELSE Bind(CHOOSE i \in starts : \A j \in starts : i <= j, LAMBDA i :
             Bind(SuffixEnds(n, s, i), LAMBDA ends :
                 SubSeq(s, 1, i - 1)
                 \o SubSeq(s, CHOOSE e \in ends : \A f \in ends : e >= f, Len(s)))))

\* "for suf in [...]: name = re.sub(suf, '', name, flags=re.IGNORECASE)"
RECURSIVE CutSuffixes(_, _)
CutSuffixes(n, s) ==
    IF n > 6 THEN s ELSE CutSuffixes(n + 1, CutSuffix(n, s))

(***************************************************************************)
(* Calendar events (services/google_calendar.py).  An event is the record  *)
(* of the fields the code reads: summary, start (the hour of               *)
(* start.dateTime, Null when the event has no start), location,            *)
(* description and the private extended properties; a text field is        *)
(* NoneStr when the event does not carry the key.                          *)
(***************************************************************************)
\* "if g not in seen: seen.add(g); episode_numbers.append(g)"
AddUnique(list, g) ==
    IF \E i \in DOMAIN list : list[i] = g THEN list ELSE Append(list, g)

RECURSIVE AddPairs(_, _)
AddPairs(list, ms) ==
    IF ms = <<>> THEN list
    ELSE AddPairs(AddUnique(AddUnique(list, Head(ms).g1), Head(ms).g2), Tail(ms))

\* "for n in range(low, high + 1)"
RECURSIVE AddRange(_, _, _)
AddRange(list, n, high) ==
    IF n > high THEN list
    ELSE AddRange(AddUnique(list, StrOf(n)), n + 1, high)

RECURSIVE AddRanges(_, _)
AddRanges(list, ms) ==
    IF ms = <<>> THEN list
    ELSE LET low == IntOf(Head(ms).g1)
             high == IntOf(Head(ms).g2)
             next == IF low <= high /\ high - low <= 10
                     THEN AddRange(list, low, high)
                     ELSE IF low = high \/ high - low = 1
                          THEN AddUnique(AddUnique(list, Head(ms).g1), Head(ms).g2)
                          ELSE list
         IN  AddRanges(next, Tail(ms))

RECURSIVE AddLabels(_, _)
AddLabels(list, ms) ==
    IF ms = <<>> THEN list
    ELSE AddLabels(AddUnique(list, Head(ms).g1), Tail(ms))

NameOrNone_keeps_empty(name) == name

\* "podcast_name if podcast_name else None"
NameOrNone(name) == IF name = <<>> THEN NoneStr ELSE name

parse_event_title(title) ==
    IF ~Truthy(title)
    THEN [podcast_name |-> NoneStr, episode_number |-> NoneStr, episode_numbers |-> <<>>]
    ELSE LET multi == AddPairs(<<>>, PairMatches("multi", title, 1))
             range == AddRanges(multi, PairMatches("range", title, 1))
             vav == AddPairs(range, PairMatches("vav", title, 1))
         IN  Bind(AddLabels(vav, LabelMatches(title, 1)), LAMBDA labelled :
             Bind(TrailingNumber(title), LAMBDA last_number :
             Bind(IF labelled = <<>> /\ last_number.ok
                  THEN <<last_number.g1>> ELSE labelled, LAMBDA episode_numbers :
                 [podcast_name |-> IF episode_numbers # <<>>
                                   THEN NameOrNone(Strip(CutSuffixes(1, title)))
                                   ELSE NameOrNone(Strip(title)),
                  episode_number |-> IF episode_numbers # <<>>
                                     THEN episode_numbers[1] ELSE NoneStr,
                  episode_numbers |-> episode_numbers])))

\* The three guest patterns: the label (lower case), the optional letter
\* after it, and whether a colon counts as separator besides blanks.
GuestPatterns ==
    <<[lit |-> <<"alef", "vav", "resh", "het">>, opt |-> {"yod", "finalmem"},
       colon |-> TRUE],
      [lit |-> <<"g", "u", "e", "s", "t">>, opt |-> {"s"}, colon |-> TRUE],
      [lit |-> <<"w", "i", "t", "h">>, opt |-> {}, colon |-> FALSE]>>

\* LABEL[opt]?[:\s]+([^\n]+) tried at position i: the separators are taken
\* greedily but leave at least one character of the line for the group.
GuestAt(s, i, pat) ==
    IF ~LitAt(s, i, pat.lit) THEN NoMatch
    ELSE LET j0 == i + Len(pat.lit)
             j == IF j0 <= Len(s) /\ Lower(s[j0]) \in pat.opt THEN j0 + 1 ELSE j0
             IsSep(c) == IsSpace(c) \/ (pat.colon /\ c = ":")
             k == CHOOSE x \in j..(Len(s) + 1) :
                      /\ \A y \in j..(x - 1) : IsSep(s[y])
                      /\ x = Len(s) + 1 \/ ~IsSep(s[x])
             starts == {m \in (j + 1)..k : m <= Len(s) /\ s[m] # "\n"}
         IN  IF starts = {} THEN NoMatch
             ELSE LET m == CHOOSE x \in starts : \A y \in starts : x >= y
                      le == CHOOSE x \in m..(Len(s) + 1) :
                                /\ \A y \in m..(x - 1) : s[y] # "\n"
                                /\ x = Len(s) + 1 \/ s[x] = "\n"
                  IN  [ok |-> TRUE, g1 |-> SubSeq(s, m, le - 1), g2 |-> <<>>,
                       end |-> le]

\* re.search of one guest pattern: the leftmost match.
GuestSearch(s, pat) ==
    LET hits == {i \in 1..Len(s) : GuestAt(s, i, pat).ok}
    IN  IF hits = {} THEN NoMatch
        ELSE GuestAt(s, CHOOSE i \in hits : \A j \in hits : i <= j, pat)

\* "for pattern in guest_patterns: ... break": the first pattern that matches.
GuestNames(description) ==
    LET found == {n \in DOMAIN GuestPatterns : GuestSearch(description, GuestPatterns[n]).ok}
    IN  IF found = {} THEN NoneStr
        ELSE Strip(GuestSearch(description,
                       GuestPatterns[CHOOSE n \in found : \A m \in found : n <= m]).g1)

\* What datetime.fromisoformat raises on a start time it cannot read; the
\* event says whether its start time is of this kind.
ValueError == [raised |-> "ValueError"]

NoPrivate == [episode_number |-> NoneStr, studio |-> NoneStr, guest_names |-> NoneStr]

Event(summary, start, location, description) ==
    [summary |-> summary, start |-> start, location |-> location,
     description |-> description, private |-> NoPrivate,
     malformed |-> FALSE, commit_fails |-> {}]

\* The events a calendar may hold: "Show 33" at hour 10; "show 33" at hour
\* 12 of the same day, with a room and a guest; "Show" (no episode number)
\* at hour 10; a blank title; "Abc 5", which names no podcast; and
\* "P2 3&4" (two episodes of the second podcast, by its alias) at hour 34.
CalendarEvents ==
    {Event(<<"S", "h", "o", "w", " ", "3", "3">>, 10, NoneStr, NoneStr),
     Event(<<"s", "h", "o", "w", " ", "3", "3">>, 12, <<"R">>,
           <<"w", "i", "t", "h", " ", "D">>),
     Event(<<"S", "h", "o", "w">>, 10, <<"R">>, NoneStr),
     Event(<<" ">>, 12, NoneStr, NoneStr),
     Event(<<"A", "b", "c", " ", "5">>, 12, NoneStr, NoneStr),
     Event(<<"P", "2", " ", "3", "&", "4">>, 34, NoneStr, NoneStr)}

\* parse_event_title of the titles of CalendarEvents, worked out once for
\* all the calls that meet them.
ParsedCalendarTitles ==
    [title \in {ev.summary : ev \in CalendarEvents} |-> parse_event_title(title)]

\* "parsed = parse_event_title(title)"
ParseTitle(title) ==
    IF title \in DOMAIN ParsedCalendarTitles
    THEN ParsedCalendarTitles[title] ELSE parse_event_title(title)

extract_episode_data_from_event_private_wins(event) ==
    LET title == IF event.summary = NoneStr THEN <<>> ELSE event.summary
        description == IF event.description = NoneStr THEN <<>> ELSE event.description
        private == event.private
    IN  IF event.malformed THEN ValueError ELSE
        Bind(ParseTitle(title), LAMBDA parsed :
        Bind(GuestNames(description), LAMBDA guest :
            [podcast_name |-> parsed.podcast_name,
             episode_number |-> IF private.episode_number # NoneStr
                                   /\ ~Truthy(parsed.episode_number)
                                THEN private.episode_number
                                ELSE parsed.episode_number,
             episode_numbers |-> parsed.episode_numbers,
             recording_date |-> event.start,
             studio |-> IF private.studio # NoneStr
                        THEN private.studio ELSE event.location,
             guest_names |-> IF private.guest_names # NoneStr /\ ~Truthy(guest)
                             THEN private.guest_names ELSE guest,
             notes |-> description]))

extract_episode_data_from_event(event) ==
    LET title == IF event.summary = NoneStr THEN <<>> ELSE event.summary
        description == IF event.description = NoneStr THEN <<>> ELSE event.description
        private == event.private
    IN  IF event.malformed THEN ValueError ELSE
        Bind(ParseTitle(title), LAMBDA parsed :
        Bind(GuestNames(description), LAMBDA guest :
            [podcast_name |-> parsed.podcast_name,
             episode_number |-> IF private.episode_number # NoneStr
                                   /\ ~Truthy(parsed.episode_number)
                                THEN private.episode_number
                                ELSE parsed.episode_number,
             episode_numbers |-> parsed.episode_numbers,
             recording_date |-> event.start,
             studio |-> IF private.studio # NoneStr /\ ~Truthy(event.location)
                        THEN private.studio ELSE event.location,
             guest_names |-> IF private.guest_names # NoneStr /\ ~Truthy(guest)
                             THEN private.guest_names ELSE guest,
             notes |-> description]))

(***************************************************************************)
(* Podcast look-up.  The store holds the podcasts (rows id, name) and the  *)
(* aliases (rows id, podcast_id, alias); a look-up returns the id of the   *)
(* podcast, Null for None.                                                 *)
(***************************************************************************)
\* Query.all(): the rows in insertion order.
RECURSIVE RowsInOrder(_)
RowsInOrder(S) ==
    IF S = {} THEN <<>>
    ELSE <<First(S)>> \o RowsInOrder(S \ {First(S)})

\* db.query(Podcast).filter(Podcast.id == id).first()
PodcastById(d, id) ==
    IF \E p \in d.podcasts : p.id = id THEN id ELSE Null

find_podcast_by_name_or_alias(d, podcast_name) ==
    IF ~Truthy(podcast_name) THEN Null
    ELSE LET name == Strip(podcast_name)
             exact == {p \in d.podcasts : p.name = name}
             nocase == {p \in d.podcasts : ILike(p.name, name)}
             alias == {a \in d.aliases : a.alias = name}
             alias_nocase == {a \in d.aliases : ILike(a.alias, name)}
         IN  IF exact # {} THEN First(exact).id
             ELSE IF nocase # {} THEN First(nocase).id
             ELSE IF alias # {} THEN PodcastById(d, First(alias).podcast_id)
             ELSE IF alias_nocase # {} THEN PodcastById(d, First(alias_nocase).podcast_id)
             ELSE Null

\* The candidates of the substring search: (podcast id, length of the name
\* or alias found in the title), podcasts first, then aliases.
RECURSIVE Candidates(_, _)
Candidates(rows, title_lower) ==
    IF rows = <<>> THEN <<>>
    ELSE LET r == Head(rows)
             hit == Truthy(r.text) /\ Contains(title_lower, LowerStr(Strip(r.text)))
         IN  (IF hit THEN <<[podcast_id |-> r.podcast_id, length |-> Len(Strip(r.text))]>>
              ELSE <<>>) \o Candidates(Tail(rows), title_lower)

find_podcast_from_event_title(d, event_title) ==
    IF ~Truthy(event_title) THEN Null
    ELSE LET title == Strip(event_title)
             direct == find_podcast_by_name_or_alias(d, title)
             podcasts == RowsInOrder(d.podcasts)
             aliases == RowsInOrder(d.aliases)
             rows == [i \in 1..Len(podcasts) |->
                         [podcast_id |-> podcasts[i].id, text |-> podcasts[i].name]]
                     \o [i \in 1..Len(aliases) |->
                         [podcast_id |-> aliases[i].podcast_id, text |-> aliases[i].alias]]
             candidates == Candidates(rows, LowerStr(title))
         IN  IF direct # Null THEN direct
             ELSE IF candidates = <<>> THEN Null
             ELSE LET best == CHOOSE i \in DOMAIN candidates :
                                  /\ \A j \in DOMAIN candidates :
                                        candidates[j].length <= candidates[i].length
                                  /\ \A j \in 1..(i - 1) :
                                        candidates[j].length < candidates[i].length
                  IN  PodcastById(d, candidates[best].podcast_id)

\* Podcast(name=podcast_name) added when the name resolves to no podcast.
find_or_create_podcast(d, podcast_name) ==
    IF ~Truthy(podcast_name) THEN [db |-> d, ret |-> Null]
    ELSE IF find_podcast_by_name_or_alias(d, podcast_name) # Null
         THEN [db |-> d, ret |-> find_podcast_by_name_or_alias(d, podcast_name)]
    ELSE LET id == Cardinality(d.podcasts) + 1
         IN  [db |-> [d EXCEPT !.podcasts = @ \cup {[id |-> id, name |-> podcast_name]}],
              ret |-> id]

(***************************************************************************)
(* Episodes from calendar events.                                          *)
(***************************************************************************)
\* datetime.replace(hour=0, minute=0, second=0, microsecond=0)
TodayStart(t) == t - (t % DAY)

\* Episode(...): the columns the event does not give take their defaults.
NewEpisode(event_data, podcast) ==
    [podcast_id |-> podcast,
     episode_number |-> event_data.episode_number,
     recording_date |-> event_data.recording_date,
     studio |-> event_data.studio,
     guest_names |-> event_data.guest_names,
     episode_notes |-> event_data.notes,
     status |-> "not_started",
     client_approved_editing |-> "pending",
     client_approved_reels |-> "pending",
     recording_engineer_id |-> Null,
     editing_engineer_id |-> Null,
     reels_engineer_id |-> Null]

\* Mutant: the look-up wants the recording date of the event itself.
MatchingEpisodes_same_hour(d, event_data, podcast) ==
    IF Truthy(event_data.episode_number) /\ event_data.recording_date # Null
    THEN {e \in DOMAIN d.episodes :
             /\ d.episodes[e].podcast_id = podcast
             /\ d.episodes[e].episode_number = event_data.episode_number
             /\ d.episodes[e].recording_date = event_data.recording_date}
    ELSE {}

\* The episodes the look-up of create_or_update_episode_from_event finds:
\* none when the event has no episode number or no recording date.
MatchingEpisodes(d, event_data, podcast) ==
    IF Truthy(event_data.episode_number) /\ event_data.recording_date # Null
    THEN LET day_start == TodayStart(event_data.recording_date)
         IN  {e \in DOMAIN d.episodes :
                 /\ d.episodes[e].podcast_id = podcast
                 /\ d.episodes[e].episode_number = event_data.episode_number
                 /\ d.episodes[e].recording_date # Null
                 /\ d.episodes[e].recording_date >= day_start
                 /\ d.episodes[e].recording_date < day_start + DAY}
    ELSE {}

\* Mutant: the studio of the event replaces the studio on file.
create_or_update_episode_from_event_overwrites(d, event_data, podcast, commit_fails) ==
    LET found == MatchingEpisodes(d, event_data, podcast)
    IN  IF commit_fails THEN [db |-> d, ret |-> Null]
        ELSE IF found # {}
        THEN LET e == CHOOSE x \in found : \A y \in found : x <= y
                 row == d.episodes[e]
             IN  [db |-> [d EXCEPT !.episodes[e] =
                            [row EXCEPT
                               !.recording_date =
                                   IF event_data.recording_date # Null
                                   THEN event_data.recording_date ELSE @,
                               !.studio =
                                   IF Truthy(event_data.studio)
                                   THEN event_data.studio ELSE @,
                               !.guest_names =
                                   IF Truthy(event_data.guest_names) /\ ~Truthy(@)
                                   THEN event_data.guest_names ELSE @,
                               !.episode_notes =
                                   IF Truthy(event_data.notes) /\ ~Truthy(@)
                                   THEN event_data.notes ELSE @]],
                  ret |-> e]
        ELSE LET e == Cardinality(DOMAIN d.episodes) + 1
             IN  [db |-> [d EXCEPT !.episodes =
                            [x \in DOMAIN d.episodes \cup {e} |->
                                IF x = e THEN NewEpisode(event_data, podcast)
                                ELSE d.episodes[x]]],
                  ret |-> e]

\* Mutant: a commit that raises is not rolled back.
create_or_update_episode_from_event_no_rollback(d, event_data, podcast, commit_fails) ==
    LET found == MatchingEpisodes(d, event_data, podcast)
    IN  IF found # {}
        THEN LET e == CHOOSE x \in found : \A y \in found : x <= y
                 row == d.episodes[e]
             IN  [db |-> [d EXCEPT !.episodes[e] =
                            [row EXCEPT
                               !.recording_date =
                                   IF event_data.recording_date # Null
                                   THEN event_data.recording_date ELSE @,
                               !.studio =
                                   IF Truthy(event_data.studio) /\ ~Truthy(@)
                                   THEN event_data.studio ELSE @,
                               !.guest_names =
                                   IF Truthy(event_data.guest_names) /\ ~Truthy(@)
                                   THEN event_data.guest_names ELSE @,
                               !.episode_notes =
                                   IF Truthy(event_data.notes) /\ ~Truthy(@)
                                   THEN event_data.notes ELSE @]],
                  ret |-> IF commit_fails THEN Null ELSE e]
        ELSE LET e == Cardinality(DOMAIN d.episodes) + 1
             IN  [db |-> [d EXCEPT !.episodes =
                            [x \in DOMAIN d.episodes \cup {e} |->
                                IF x = e THEN NewEpisode(event_data, podcast)
                                ELSE d.episodes[x]]],
                  ret |-> IF commit_fails THEN Null ELSE e]

\* Returns the new store and the id of the episode created or updated.
\* commit_fails: db.commit() raises; the change is rolled back and None is
\* returned.
create_or_update_episode_from_event(d, event_data, podcast, commit_fails) ==
    LET found == MatchingEpisodes(d, event_data, podcast)
    IN  IF commit_fails THEN [db |-> d, ret |-> Null]
        ELSE IF found # {}
        THEN LET e == CHOOSE x \in found : \A y \in found : x <= y
                 row == d.episodes[e]
             IN  [db |-> [d EXCEPT !.episodes[e] =
                            [row EXCEPT
                               !.recording_date =
                                   IF event_data.recording_date # Null
                                   THEN event_data.recording_date ELSE @,
                               !.studio =
                                   IF Truthy(event_data.studio) /\ ~Truthy(@)
                                   THEN event_data.studio ELSE @,
                               !.guest_names =
                                   IF Truthy(event_data.guest_names) /\ ~Truthy(@)
                                   THEN event_data.guest_names ELSE @,
                               !.episode_notes =
                                   IF Truthy(event_data.notes) /\ ~Truthy(@)
                                   THEN event_data.notes ELSE @]],
                  ret |-> e]
        ELSE LET e == Cardinality(DOMAIN d.episodes) + 1
             IN  [db |-> [d EXCEPT !.episodes =
                            [x \in DOMAIN d.episodes \cup {e} |->
                                IF x = e THEN NewEpisode(event_data, podcast)
                                ELSE d.episodes[x]]],
                  ret |-> e]

\* "event.get('summary') or ''"
RawTitle(event) == IF event.summary = NoneStr THEN <<>> ELSE event.summary

\* The episode numbers an event is ingested for: those of the title, else
\* the one of the event data, else a single pass without number.
EpNums(event_data) ==
    IF event_data.episode_numbers # <<>> THEN event_data.episode_numbers
    ELSE IF Truthy(event_data.episode_number) THEN <<event_data.episode_number>>
    ELSE <<NoneStr>>

\* "for ep_num in ep_nums": acc is the list of the episodes ingested so far,
\* fails the positions in the event's list of episode numbers for which the
\* commit raises.
RECURSIVE IngestNumbers(_, _, _, _, _, _)
IngestNumbers(d, event_data, podcast, ep_nums, fails, acc) ==
    IF ep_nums = <<>> THEN [db |-> d, ret |-> acc]
    ELSE Bind(create_or_update_episode_from_event(
                  d, [event_data EXCEPT !.episode_number = Head(ep_nums)], podcast,
                  (Len(EpNums(event_data)) - Len(ep_nums) + 1) \in fails),
              LAMBDA r : IngestNumbers(r.db, event_data, podcast, Tail(ep_nums), fails,
                                       IF r.ret # Null THEN Append(acc, r.ret) ELSE acc))

\* Mutant: an unknown title makes a new podcast (find_or_create_podcast).
IngestEvent_autocreate(d, event, acc) ==
    Bind(extract_episode_data_from_event(event), LAMBDA event_data :
    Bind(find_or_create_podcast(d, RawTitle(event)), LAMBDA p :
        IF event_data = ValueError \/ Strip(RawTitle(event)) = <<>> \/ p.ret = Null
        THEN [db |-> d, ret |-> acc]
        ELSE IngestNumbers(p.db, event_data, p.ret, EpNums(event_data),
                           event.commit_fails, acc)))

\* The body of "for event in events" of get_todays_episodes_from_calendar
\* and of sync_calendar_to_database: an event with a blank title or with a
\* title that names no known podcast is skipped, and so is an event whose
\* extraction raises ("except Exception: continue").
IngestEvent(d, event, acc) ==
    Bind(extract_episode_data_from_event(event), LAMBDA event_data :
    Bind(find_podcast_from_event_title(d, RawTitle(event)), LAMBDA podcast :
        IF event_data = ValueError \/ Strip(RawTitle(event)) = <<>> \/ podcast = Null
        THEN [db |-> d, ret |-> acc]
        ELSE IngestNumbers(d, event_data, podcast, EpNums(event_data),
                           event.commit_fails, acc)))

RECURSIVE IngestEvents(_, _, _)
IngestEvents(d, events, acc) ==
    IF events = <<>> THEN [db |-> d, ret |-> acc]
    ELSE Bind(IngestEvent(d, Head(events), acc),
              LAMBDA r : IngestEvents(r.db, Tail(events), r.ret))

\* service.events().list(timeMin, timeMax).execute(): the events of the
\* calendar that start in the window (an event is taken to last no time).
ListEvents(cal, time_min, time_max) ==
    SelectSeq(cal.events, LAMBDA ev : time_min <= ev.start /\ ev.start < time_max)

\* The calendar as the deployment ships it: config.GOOGLE_CALENDAR_ENABLED
\* is False.
NoCalendar == [mode |-> "disabled", events |-> <<>>]

GOOGLE_CALENDAR_LOOKAHEAD_DAYS == 7

(***************************************************************************)
(* The daily job.  cal is the calendar the job meets: its mode is          *)
(* "disabled" (integration off or libraries missing), "no_service" (no     *)
(* service object), "list_raises" (the event-list call raises) or "ok"     *)
(* with the events of the calendar.                                        *)
(***************************************************************************)
\* The ids of a set of episodes in the order Query.all() returns the rows.
RECURSIVE IdsInOrder(_)
IdsInOrder(S) ==
    IF S = {} THEN <<>>
    ELSE LET e == CHOOSE x \in S : \A y \in S : x <= y
         IN  <<e>> \o IdsInOrder(S \ {e})

\* Mutant: the fall-back reports no episode.
TodaysEpisodesInDatabase_none(d, t) ==
    <<>>

\* The fall-back query: the stored episodes recorded in the current UTC day.
TodaysEpisodesInDatabase(d, t) ==
    IdsInOrder({e \in DOMAIN d.episodes :
                   /\ d.episodes[e].recording_date # Null
                   /\ d.episodes[e].recording_date >= TodayStart(t)
                   /\ d.episodes[e].recording_date < TodayStart(t) + DAY})

\* Returns the new store and the list of the ids of today's episodes.
get_todays_episodes_from_calendar(d, t, cal) ==
    IF cal.mode # "ok"
    THEN [db |-> d, ret |-> TodaysEpisodesInDatabase(d, t)]
    ELSE IngestEvents(d, ListEvents(cal, TodayStart(t), TodayStart(t) + DAY), <<>>)

\* Mutant: a failing event-list call counts as no event at all.
sync_calendar_to_database_counts_failure(d, t, cal, days_ahead) ==
    IF cal.mode \in {"disabled", "no_service"}
    THEN [db |-> d, ret |-> 0, episodes |-> <<>>]
    ELSE LET days == IF days_ahead = Null \/ days_ahead = 0
                     THEN GOOGLE_CALENDAR_LOOKAHEAD_DAYS ELSE days_ahead
         IN  Bind(IngestEvents(d, ListEvents(cal, t, t + days * DAY), <<>>),
                  LAMBDA r : [db |-> r.db,
                              ret |-> Len(r.ret) + IF cal.mode = "ok" THEN 0 ELSE 1,
                              episodes |-> r.ret])

\* Returns the new store and synced_count; the result also shows the
\* episodes create_or_update_episode_from_event returned, in order.
sync_calendar_to_database(d, t, cal, days_ahead) ==
    IF cal.mode # "ok" THEN [db |-> d, ret |-> 0, episodes |-> <<>>]
    ELSE LET days == IF days_ahead = Null \/ days_ahead = 0
                     THEN GOOGLE_CALENDAR_LOOKAHEAD_DAYS ELSE days_ahead
         IN  Bind(IngestEvents(d, ListEvents(cal, t, t + days * DAY), <<>>),
                  LAMBDA r : [db |-> r.db, ret |-> Len(r.ret), episodes |-> r.ret])

\* "for episode in today_episodes: create_studio_preparation_task(db, episode)"
RECURSIVE CreateStudioPrepForAll(_, _, _)
CreateStudioPrepForAll(d, eps, t) ==
    IF eps = <<>> THEN d
    ELSE Bind(create_studio_preparation_task(d, Head(eps), t),
              LAMBDA r : CreateStudioPrepForAll(r.db, Tail(eps), t))

\* Mutant: the job returns the number of tasks it created.
process_daily_workflow_counts_tasks(d, t, cal, fault) ==
    Bind(delete_stale_studio_preparation_tasks(d, t), LAMBDA deleted :
    Bind(get_todays_episodes_from_calendar(deleted.db, t, cal), LAMBDA today :
        IF fault /\ today.ret # <<>>
        THEN [db |-> today.db, ret |-> Null, raised |-> TRUE, today |-> today.ret]
        ELSE Bind(CreateStudioPrepForAll(today.db, today.ret, t), LAMBDA d2 :
                 [db |-> d2, ret |-> d2.nextId - today.db.nextId, raised |-> FALSE,
                  today |-> today.ret])))

\* Mutant: the stale tasks are deleted after the tasks of the day were made.
process_daily_workflow_deletes_last(d, t, cal, fault) ==
    Bind(get_todays_episodes_from_calendar(d, t, cal), LAMBDA today :
        IF fault /\ today.ret # <<>>
        THEN [db |-> today.db, ret |-> Null, raised |-> TRUE, today |-> today.ret]
        ELSE [db |-> delete_stale_studio_preparation_tasks(
                         CreateStudioPrepForAll(today.db, today.ret, t), t).db,
              ret |-> Len(today.ret), raised |-> FALSE, today |-> today.ret])

\* fault: the store fails in the task-creation step; the exception goes to
\* the caller (raised) after the deletions and the ingestion were committed.
\* Besides the store and the returned count, the result shows the local
\* today_episodes (today).
process_daily_workflow(d, t, cal, fault) ==
    Bind(delete_stale_studio_preparation_tasks(d, t), LAMBDA deleted :
    Bind(get_todays_episodes_from_calendar(deleted.db, t, cal), LAMBDA today :
        IF fault /\ today.ret # <<>>
        THEN [db |-> today.db, ret |-> Null, raised |-> TRUE, today |-> today.ret]
        ELSE [db |-> CreateStudioPrepForAll(today.db, today.ret, t),
              ret |-> Len(today.ret), raised |-> FALSE, today |-> today.ret]))

\* POST /daily: the answer of the HTTP trigger, 500 when the job raised.
trigger_daily_workflow(d, t, cal, fault) ==
    Bind(process_daily_workflow(d, t, cal, fault), LAMBDA r :
        [db |-> r.db, status |-> IF r.raised THEN 500 ELSE 200,
         episodes_processed |-> r.ret, raised |-> r.raised, today |-> r.today])
(***************************************************************************)
(* API handlers.  upd is the partial update: a field is Unset when the     *)
(* request does not carry it.                                              *)
(***************************************************************************)
update_task(d, id, upd, t) ==
    LET task == TaskById(d, id)
        completed == IF upd.status = "done" /\ task.status # "done" THEN t
                     ELSE IF upd.status # "done" /\ task.status = "done" THEN Null
                     ELSE IF upd.completed_at # UnsetTime THEN upd.completed_at
                     ELSE task.completed_at
        status == IF upd.status # Unset THEN upd.status ELSE task.status
    IN  SetTask(d, task, [task EXCEPT !.status = status, !.completed_at = completed])

update_episode(d, e, upd, t) ==
    LET old == d.episodes[e]
        row == [old EXCEPT
                  !.status = IF upd.status # Unset THEN upd.status ELSE @,
                  !.client_approved_editing =
                      IF upd.client_approved_editing # Unset
                      THEN upd.client_approved_editing ELSE @,
                  !.client_approved_reels =
                      IF upd.client_approved_reels # Unset
                      THEN upd.client_approved_reels ELSE @]
        d1 == [d EXCEPT !.episodes[e] = row]
    IN  IF \/ old.status # row.status
           \/ upd.client_approved_editing # Unset
           \/ upd.client_approved_reels # Unset
        THEN process_episode_status_change(d1, e, t)
        ELSE d1

(***************************************************************************)
(* The state machine.                                                      *)
(***************************************************************************)
\* The episodes on file at the start: defaults of models.Episode for status
\* and approvals; the first episode is scheduled and staffed, the others
\* alternate between unscheduled and scheduled.
InitialEpisode(e) ==
    [podcast_id |-> 1,
     episode_number |-> NoneStr,
     studio |-> NoneStr,
     guest_names |-> NoneStr,
     episode_notes |-> NoneStr,
     status |-> "not_started",
     client_approved_editing |-> "pending",
     client_approved_reels |-> "pending",
     recording_date |-> IF e % 2 = 1 THEN 5 * e ELSE Null,
     recording_engineer_id |-> IF e = 1 THEN 1 ELSE Null,
     editing_engineer_id |-> IF e = 1 THEN 2 ELSE Null,
     reels_engineer_id |-> Null]

NoUpdate ==
    [status |-> Unset,
     client_approved_editing |-> Unset,
     client_approved_reels |-> Unset,
     completed_at |-> UnsetTime]

\* The operation that ran last: its name, its arguments, what it returned, and
\* whether it repeats the call before it (same operation, same arguments).
Call(op, e, id, old, upd, ret) ==
    [op |-> op, ep |-> e, task |-> id, old |-> old, upd |-> upd, ret |-> ret,
     again |-> (last.op = op /\ last.ep = e /\ last.task = id
                /\ last.old = old /\ last.upd = upd)]

\* Requests that change the status of a task, or leave it out (an update of
\* the notes alone).
TaskUpdates ==
    {[NoUpdate EXCEPT !.status = s] : s \in TaskStatuses \cup {Unset}}

\* Requests that change one field of an episode.
EpisodeUpdates ==
    {[NoUpdate EXCEPT !.status = s] : s \in EpisodeStatuses}
    \cup {[NoUpdate EXCEPT !.client_approved_editing = a] : a \in Approvals}
    \cup {[NoUpdate EXCEPT !.client_approved_reels = a] : a \in Approvals}

\* The old_status values handed to process_task_status_change: the handler
\* only asks whether it is done.
OldStatuses == {"in_progress", "done"}

Init ==
    /\ db = [episodes |-> [e \in EpisodeIds |-> InitialEpisode(e)],
             tasks |-> {},
             nextId |-> 1]
    /\ now = 0
    /\ last = [op |-> "init", ep |-> Null, task |-> Null, old |-> Unset,
               upd |-> NoUpdate, ret |-> Null, again |-> FALSE]
    /\ steps = 0

Step == steps < MaxSteps /\ steps' = steps + 1

CreateStudioPreparationTask(e) ==
    /\ Step
    /\ LET r == create_studio_preparation_task(db, e, now)
       IN  /\ db' = r.db
           /\ last' = Call("create_studio_preparation_task", e, Null, Unset, NoUpdate, r.ret)
    /\ UNCHANGED now

CreateRecordingTask(e) ==
    /\ Step
    /\ LET r == create_recording_task(db, e, now)
       IN  /\ db' = r.db
           /\ last' = Call("create_recording_task", e, Null, Unset, NoUpdate, r.ret)
    /\ UNCHANGED now

CreateEditingTask(e) ==
    /\ Step
    /\ LET r == create_editing_task(db, e)
       IN  /\ db' = r.db
           /\ last' = Call("create_editing_task", e, Null, Unset, NoUpdate, r.ret)
    /\ UNCHANGED now

CreateReelsTask(e) ==
    /\ Step
    /\ LET r == create_reels_task(db, e)
       IN  /\ db' = r.db
           /\ last' = Call("create_reels_task", e, Null, Unset, NoUpdate, r.ret)
    /\ UNCHANGED now

CreatePublishingTask(e) ==
    /\ Step
    /\ LET r == create_publishing_task(db, e)
       IN  /\ db' = r.db
           /\ last' = Call("create_publishing_task", e, Null, Unset, NoUpdate, r.ret)
    /\ UNCHANGED now

DeleteStaleStudioPreparationTasks ==
    /\ Step
    /\ LET r == delete_stale_studio_preparation_tasks(db, now)
       IN  /\ db' = r.db
           /\ last' = Call("delete_stale_studio_preparation_tasks", Null, Null, Unset,
                           NoUpdate, r.ret)
    /\ UNCHANGED now

ProcessDailyWorkflow ==
    /\ Step
    /\ LET r == process_daily_workflow(db, now, NoCalendar, FALSE)
       IN  /\ db' = r.db
           /\ last' = Call("process_daily_workflow", Null, Null, Unset, NoUpdate, r.ret)
    /\ UNCHANGED now

\* old_status is only logged by the handler.
ProcessEpisodeStatusChange(e) ==
    /\ Step
    /\ db' = process_episode_status_change(db, e, now)
    /\ last' = Call("process_episode_status_change", e, Null, Unset, NoUpdate, Null)
    /\ UNCHANGED now

ProcessTaskStatusChange(id, old_status) ==
    /\ Step
    /\ id \in TaskIds(db)
    /\ db' = process_task_status_change(db, id, old_status, now)
    /\ last' = Call("process_task_status_change", TaskById(db, id).episode_id, id,
                    old_status, NoUpdate, Null)
    /\ UNCHANGED now

UpdateTask(id, upd) ==
    /\ Step
    /\ id \in TaskIds(db)
    /\ db' = update_task(db, id, upd, now)
    /\ last' = Call("update_task", TaskById(db, id).episode_id, id,
                    TaskById(db, id).status, upd, id)
    /\ UNCHANGED now

UpdateEpisode(e, upd) ==
    /\ Step
    /\ db' = update_episode(db, e, upd, now)
    /\ last' = Call("update_episode", e, Null, Unset, upd, e)
    /\ UNCHANGED now

\* Wall-clock time passes between requests.
Tick ==
    /\ Step
    /\ now + DAY + 6 * HOUR <= MaxNow
    /\ now' = now + DAY + 6 * HOUR
    /\ last' = Call("tick", Null, Null, Unset, NoUpdate, Null)
    /\ UNCHANGED db

Next ==
    \/ \E e \in EpisodeIds : CreateStudioPreparationTask(e)
    \/ \E e \in EpisodeIds : CreateRecordingTask(e)
    \/ \E e \in EpisodeIds : CreateEditingTask(e)
    \/ \E e \in EpisodeIds : CreateReelsTask(e)
    \/ \E e \in EpisodeIds : CreatePublishingTask(e)
    \/ DeleteStaleStudioPreparationTasks
    \/ ProcessDailyWorkflow
    \/ \E e \in EpisodeIds : ProcessEpisodeStatusChange(e)
    \/ \E id \in TaskIds(db), s \in OldStatuses : ProcessTaskStatusChange(id, s)
    \/ \E id \in TaskIds(db), u \in TaskUpdates : UpdateTask(id, u)
    \/ \E e \in EpisodeIds, u \in EpisodeUpdates : UpdateEpisode(e, u)
    \/ Tick

Spec == Init /\ [][Next]_vars

(***************************************************************************)
(* Properties.                                                             *)
(***************************************************************************)
BothApproved(d, e) ==
    /\ d.episodes[e].client_approved_editing = "approved"
    /\ d.episodes[e].client_approved_reels = "approved"

CreateOps ==
    {"create_studio_preparation_task", "create_recording_task", "create_editing_task",
     "create_reels_task", "create_publishing_task"}

\* The task type a creation operation is about.
TypeOfOp(op) ==
    CASE op = "create_studio_preparation_task" -> "studio_preparation"
      [] op = "create_recording_task" -> "recording"
      [] op = "create_editing_task" -> "editing"
      [] op = "create_reels_task" -> "reels"
      [] op = "create_publishing_task" -> "publishing"

\* C1: after any sequence of operations of the automation engine (and of the
\* status updates of the API), started from a store without duplicates,
\* every episode has at most one task of each task type.
C1_AtMostOneTaskPerType ==
    \A e \in EpisodeIds, ty \in TaskTypes : Cardinality(TasksOf(db, e, ty)) <= 1

\* An episode that went through the whole pipeline: the status handler ran on
\* it and it has its editing, reels and publishing tasks.
C1_Witness ==
    /\ last.op = "process_episode_status_change"
    /\ \A ty \in {"editing", "reels", "publishing"} :
          Cardinality(TasksOf(db, last.ep, ty)) = 1

\* C2: a creation operation called twice in a row for the same episode
\* returns the same task id both times, the second call changes nothing in
\* the store, and exactly one task of the type exists afterwards (for
\* publishing: when both approvals are approved).
C2_CreateTwiceIdempotent ==
    [][(/\ last.op \in CreateOps
        /\ last'.op = last.op
        /\ last'.ep = last.ep
        /\ (last.op = "create_publishing_task" => BothApproved(db, last.ep)))
       => (/\ last'.ret = last.ret
           /\ db' = db
           /\ Cardinality(TasksOf(db', last.ep, TypeOfOp(last.op))) = 1)]_vars

\* A second create_publishing_task call in a row that returned the task.
C2_Witness ==
    /\ last.op = "create_publishing_task"
    /\ last.again
    /\ BothApproved(db, last.ep)
    /\ last.ret \in {t.id : t \in TasksOf(db, last.ep, "publishing")}

\* C3: process_task_status_change for a recording task that is done, with an
\* old status other than done, returns with the episode recorded, an editing
\* and a reels task on file and no studio_preparation task left open.
NewlyDone(op, ty) ==
    /\ last.op = op
    /\ last.old # "done"
    /\ last.task \in TaskIds(db)
    /\ TaskById(db, last.task).type = ty
    /\ TaskById(db, last.task).status = "done"

ApprovalFor(d, e, ty) ==
    IF ty = "editing" THEN d.episodes[e].client_approved_editing
    ELSE d.episodes[e].client_approved_reels

SyncRan(e) ==
    /\ last'.ep = e
    /\ \/ last'.op = "process_episode_status_change"
       \/ /\ last'.op = "update_episode"
          /\ \/ last'.upd.client_approved_editing # Unset
             \/ last'.upd.client_approved_reels # Unset

\* C4: when the approval is approved, the sync sets an existing editing
\* (reels) task that is not done to done with the completion timestamp at the
\* current time, and leaves a task that is already done unchanged.
C4_ApprovedSync ==
    [][\A e \in EpisodeIds, ty \in {"editing", "reels"} :
          (SyncRan(e) /\ ApprovalFor(db', e, ty) = "approved")
          => \A x \in TasksOf(db, e, ty) :
                IF x.status # "done"
                THEN [x EXCEPT !.status = "done", !.completed_at = now] \in db'.tasks
                ELSE x \in db'.tasks]_vars

\* An approval of the editing came in and the sync closed the task now.
C4_Witness ==
    /\ last.op = "update_episode"
    /\ last.upd.client_approved_editing = "approved"
    /\ now > 0
    /\ \E x \in TasksOf(db, last.ep, "editing") :
          x.status = "done" /\ x.completed_at = now

\* C5: when the approval is rejected, the sync resets the task to in_progress
\* with no completion timestamp exactly when it was done or sent_to_client and
\* leaves it unchanged otherwise; when the approval is pending the task is
\* unchanged.
C5_RejectedPendingSync ==
    [][\A e \in EpisodeIds, ty \in {"editing", "reels"} :
          (SyncRan(e) /\ ApprovalFor(db', e, ty) \in {"rejected", "pending"})
          => \A x \in TasksOf(db, e, ty) :
                IF ApprovalFor(db', e, ty) = "rejected"
                   /\ x.status \in {"done", "sent_to_client"}
                THEN /\ [x EXCEPT !.status = "in_progress", !.completed_at = Null]
                            \in db'.tasks
                     /\ x \notin db'.tasks
                ELSE x \in db'.tasks]_vars

\* A rejection of the reels came in and the reels task of the episode is in
\* progress without completion timestamp.
C5_Witness ==
    /\ last.op = "update_episode"
    /\ last.upd.client_approved_reels = "rejected"
    /\ \E x \in TasksOf(db, last.ep, "reels") :
          x.status = "in_progress" /\ x.completed_at = Null

\* C6: approving the editing and running the sync leaves an existing editing
\* task done with a completion timestamp, whatever its status was; rejecting
\* it right after leaves the task in_progress without completion timestamp.
\* The same for the reels.
ApprovalSet(l, ty) ==
    IF ty = "editing" THEN l.upd.client_approved_editing
    ELSE l.upd.client_approved_reels

C6_ApprovalRoundTrip ==
    [][\A e \in EpisodeIds, ty \in {"editing", "reels"} :
          /\ (/\ last'.op = "update_episode"
              /\ last'.ep = e
              /\ ApprovalSet(last', ty) = "approved")
             => \A x \in TasksOf(db, e, ty) :
                   /\ TaskById(db', x.id).status = "done"
                   /\ TaskById(db', x.id).completed_at # Null
          /\ (/\ last.op = "update_episode"
              /\ last.ep = e
              /\ ApprovalSet(last, ty) = "approved"
              /\ last'.op = "update_episode"
              /\ last'.ep = e
              /\ ApprovalSet(last', ty) = "rejected")
             => \A x \in TasksOf(db, e, ty) :
                   /\ TaskById(db', x.id).status = "in_progress"
                   /\ TaskById(db', x.id).completed_at = Null]_vars

\* C7 as stated: unless both approvals are approved create_publishing_task
\* returns null and creates nothing; with both approved it leaves exactly one
\* publishing task, created not_started, without assignee and due date.
C7_PublishingGatingAsStated ==
    [][\A e \in EpisodeIds :
          (last'.op = "create_publishing_task" /\ last'.ep = e)
          => IF BothApproved(db, e)
             THEN /\ Cardinality(TasksOf(db', e, "publishing")) = 1
                  /\ \A x \in TasksOf(db', e, "publishing") \ db.tasks :
                        /\ x.status = "not_started"
                        /\ x.assigned_to = Null
                        /\ x.due_date = Null
             ELSE last'.ret = Null /\ db' = db]_vars

\* C7 amended: create_publishing_task never creates a task unless both
\* approvals are approved; it returns the existing publishing task unchanged
\* when there is one (whatever the approvals are) and null only when there is
\* none and the approvals are not both approved; with both approved and no
\* publishing task it creates exactly one (not_started, no assignee, no due
\* date), and a further call creates no duplicate.
C7_PublishingGating ==
    [][\A e \in EpisodeIds :
          (last'.op = "create_publishing_task" /\ last'.ep = e)
          => IF TasksOf(db, e, "publishing") # {}
             THEN /\ db' = db
                  /\ last'.ret \in {x.id : x \in TasksOf(db, e, "publishing")}
             ELSE IF BothApproved(db, e)
             THEN /\ db'.tasks = db.tasks \cup
                        {[id |-> last'.ret, episode_id |-> e, type |-> "publishing",
                          status |-> "not_started", assigned_to |-> Null,
                          due_date |-> Null, completed_at |-> Null]}
                  /\ last'.ret \notin TaskIds(db)
                  /\ db'.episodes = db.episodes
             ELSE last'.ret = Null /\ db' = db]_vars

\* create_publishing_task returned the publishing task of an episode whose
\* approvals are no longer both approved.
C7_Witness ==
    /\ last.op = "create_publishing_task"
    /\ ~BothApproved(db, last.ep)
    /\ last.ret \in {x.id : x \in TasksOf(db, last.ep, "publishing")}

\* C8: process_task_status_change changes nothing in the store when the old
\* status was done, when the task is not done, or when the done task is an
\* editing, reels or publishing task.
C8_TaskChangeFrame ==
    [][(/\ last'.op = "process_task_status_change"
        /\ LET task == TaskById(db, last'.task)
           IN  \/ last'.old = "done"
               \/ task.status # "done"
               \/ task.type \in {"editing", "reels", "publishing"})
       => db' = db]_vars

\* The handler was called for a recording task that is done and was done
\* before: the episode is not marked recorded.
C8_Witness ==
    /\ last.op = "process_task_status_change"
    /\ last.old = "done"
    /\ TaskById(db, last.task).type = "recording"
    /\ TaskById(db, last.task).status = "done"
    /\ db.episodes[last.ep].status # "recorded"
    /\ TasksOf(db, last.ep, "editing") = {}

\* C9: when a studio_preparation task is newly done,
\* process_task_status_change leaves exactly one recording task for the
\* episode (a new one, not_started and assigned to the recording engineer,
\* when there was none; the existing one untouched otherwise) and does not
\* change the episode.
C9_StudioPrepDoneCreatesRecording ==
    [][(/\ last'.op = "process_task_status_change"
        /\ last'.old # "done"
        /\ TaskById(db, last'.task).type = "studio_preparation"
        /\ TaskById(db, last'.task).status = "done")
       => LET e == last'.ep
          IN  /\ Cardinality(TasksOf(db', e, "recording")) = 1
              /\ db'.episodes = db.episodes
              /\ IF TasksOf(db, e, "recording") = {}
                 THEN \A x \in TasksOf(db', e, "recording") :
                         /\ x.status = "not_started"
                         /\ x.assigned_to = db.episodes[e].recording_engineer_id
                         /\ x.id \notin TaskIds(db)
                 ELSE TasksOf(db', e, "recording") = TasksOf(db, e, "recording")]_vars

\* The handler created the recording task of an episode whose studio
\* preparation was just completed.
C9_Witness ==
    /\ NewlyDone("process_task_status_change", "studio_preparation")
    /\ \E x \in TasksOf(db, last.ep, "recording") :
          /\ x.id = db.nextId - 1
          /\ x.status = "not_started"
          /\ x.assigned_to = 1

\* C10: after update_task makes a studio_preparation task newly done the
\* episode has a recording task, and after it makes a recording task newly
\* done the episode is recorded and has its editing and reels tasks.
C10_UpdateTaskFeedsAutomation ==
    /\ NewlyDone("update_task", "studio_preparation")
       => TasksOf(db, last.ep, "recording") # {}
    /\ NewlyDone("update_task", "recording")
       => /\ db.episodes[last.ep].status = "recorded"
          /\ TasksOf(db, last.ep, "editing") # {}
          /\ TasksOf(db, last.ep, "reels") # {}

\* C11: in every state reached through update_task and the status changes of
\* the automation engine, a task has a completion timestamp exactly when its
\* status is done (an update that leaves the status out, such as an update of
\* the notes alone, does not touch the timestamp).
C11_CompletedIffDone ==
    \A x \in db.tasks : (x.completed_at # Null) <=> (x.status = "done")

(***************************************************************************)
(* The stale-task cleanup on a tasks table filled through the API          *)
(* (POST /tasks accepts any type, status and due date).                    *)
(***************************************************************************)
\* api/tasks.py create_task: the row is the request body; an unknown episode
\* is refused (HTTP 400) and nothing is stored.
create_task(d, task) ==
    IF task.episode_id \notin DOMAIN d.episodes
    THEN [db |-> d, ret |-> Null]
    ELSE [db |-> [d EXCEPT !.tasks = @ \cup {[id |-> d.nextId,
                                              episode_id |-> task.episode_id,
                                              type |-> task.type,
                                              status |-> task.status,
                                              assigned_to |-> Null,
                                              due_date |-> task.due_date,
                                              completed_at |-> Null]},
                           !.nextId = @ + 1],
          ret |-> d.nextId]

\* The request bodies: a studio preparation or another task, open or done,
\* without due date or due around the point that is 24 hours before the
\* second clock value (30 - DAY = 6).
TaskCreates ==
    [episode_id : {1},
     type : {"studio_preparation", "recording"},
     status : {"not_started", "done"},
     due_date : {Null, 5, 6, 7}]

CreateTask(task) ==
    /\ Step
    /\ LET r == create_task(db, task)
       IN  /\ db' = r.db
           /\ last' = Call("create_task", task.episode_id, Null, Unset, NoUpdate, r.ret)
    /\ UNCHANGED now

NextStale ==
    \/ \E task \in TaskCreates : CreateTask(task)
    \/ DeleteStaleStudioPreparationTasks
    \/ Tick

SpecStale == Init /\ [][NextStale]_vars

\* C12: delete_stale_studio_preparation_tasks removes exactly the
\* studio_preparation tasks whose due date is set and lies more than 24 hours
\* before the current time, whatever their status, returns how many they
\* were, and leaves every other task and every episode as it was.
C12_DeleteStaleExact ==
    [][last'.op = "delete_stale_studio_preparation_tasks"
       => LET gone == {x \in db.tasks : /\ x.type = "studio_preparation"
                                        /\ x.due_date # Null
                                        /\ now - x.due_date > DAY}
          IN  /\ db'.tasks = db.tasks \ gone
              /\ last'.ret = Cardinality(gone)
              /\ db'.episodes = db.episodes]_vars

\* The cleanup removed a stale task and kept a studio_preparation task that
\* was due within the last 24 hours.
C12_Witness ==
    /\ last.op = "delete_stale_studio_preparation_tasks"
    /\ last.ret >= 1
    /\ \E x \in db.tasks : /\ x.type = "studio_preparation"
                           /\ x.due_date # Null
                           /\ x.due_date < now
                           /\ now - x.due_date <= DAY

(***************************************************************************)
(* The calendar ingestion as a state machine: the daily job and the sync   *)
(* meet a calendar in any mode and with any batch of events, and           *)
(* create_or_update_episode_from_event is also called on its own.          *)
(***************************************************************************)
MaxCalls == 2

\* The podcasts and the alias on file.
StoredPodcasts ==
    {[id |-> 1, name |-> <<"S", "h", "o", "w">>],
     [id |-> 2, name |-> <<"P", "o", "d">>]}

StoredAliases ==
    {[id |-> 1, podcast_id |-> 2, alias |-> <<"P", "2">>]}

\* The store the ingestion starts from: episode 33 of the first podcast,
\* recorded at hour 10 in studio A, whose studio preparation was created at
\* hour 0 and which was set to recorded at hour 3.
PriorStore ==
    LET row == [NewEpisode([episode_number |-> <<"3", "3">>,
                            recording_date |-> 10,
                            studio |-> <<"A">>,
                            guest_names |-> NoneStr,
                            notes |-> NoneStr], 1)
                  EXCEPT !.recording_engineer_id = 1]
        d0 == [episodes |-> [e \in {1} |-> row],
               tasks |-> {},
               nextId |-> 1,
               podcasts |-> StoredPodcasts,
               aliases |-> StoredAliases]
        d1 == create_studio_preparation_task(d0, 1, 0).db
    IN  update_episode(d1, 1, [NoUpdate EXCEPT !.status = "recorded"], 3)

\* What one events.list call returns: no event, one, or two different
\* events in the order of their start times (orderBy=startTime).
Batches ==
    {<<>>} \cup {<<a>> : a \in CalendarEvents}
    \cup {b \in CalendarEvents \X CalendarEvents :
              b[1] # b[2] /\ b[1].start <= b[2].start}

Calendars ==
    {[mode |-> m, events |-> <<>>] : m \in {"disabled", "no_service", "list_raises"}}
    \cup {[mode |-> "ok", events |-> b] : b \in Batches}

\* The days_ahead of a sync: left out (the look-ahead of the settings), or
\* one day.
DaysAhead == {Null, 1}

\* The event data create_or_update_episode_from_event is called with: the
\* data of an event, for one of its episode numbers.
EventDatas ==
    UNION {{[extract_episode_data_from_event(ev) EXCEPT !.episode_number = n] :
               n \in {EpNums(extract_episode_data_from_event(ev))[i] :
                         i \in DOMAIN EpNums(extract_episode_data_from_event(ev))}} :
           ev \in CalendarEvents}

NoEventData ==
    [podcast_name |-> NoneStr, episode_number |-> NoneStr, episode_numbers |-> <<>>, recording_date |-> Null,
     studio |-> NoneStr, guest_names |-> NoneStr, notes |-> <<>>]

\* The call that ran last on the calendar side: its name, its arguments
\* (the calendar it met, the fault, days_ahead, the event data and the
\* podcast), what it returned, whether it raised, the episodes the calendar
\* layer reported, the status of the HTTP answer, and whether it repeats
\* the call before it.
CalCall(op, cal, fault, days_ahead, event_data, podcast, ret, raised, eps, status) ==
    [op |-> op, cal |-> cal, fault |-> fault, days_ahead |-> days_ahead,
     event_data |-> event_data, podcast |-> podcast, ret |-> ret,
     raised |-> raised, eps |-> eps, status |-> status,
     again |-> (last.op = op /\ last.cal = cal /\ last.fault = fault
                /\ last.days_ahead = days_ahead
                /\ last.event_data = event_data /\ last.podcast = podcast)]

CalInit ==
    /\ db = PriorStore
    /\ now \in {6, 40}
    /\ last = [op |-> "init", cal |-> NoCalendar, fault |-> FALSE, days_ahead |-> Null,
               event_data |-> NoEventData, podcast |-> Null, ret |-> Null,
               raised |-> FALSE, eps |-> <<>>, status |-> Null, again |-> FALSE]
    /\ steps = 0

CalStep == steps < MaxCalls /\ steps' = steps + 1

DailyWorkflow(cal, fault) ==
    /\ CalStep
    /\ \E r \in {trigger_daily_workflow(db, now, cal, fault)} :
           /\ db' = r.db
           /\ last' = CalCall("process_daily_workflow", cal, fault, Null,
                              NoEventData, Null, r.episodes_processed, r.raised,
                              r.today, r.status)
    /\ UNCHANGED now

SyncCalendarToDatabase(cal, days_ahead) ==
    /\ CalStep
    /\ \E r \in {sync_calendar_to_database(db, now, cal, days_ahead)} :
           /\ db' = r.db
           /\ last' = CalCall("sync_calendar_to_database", cal, FALSE, days_ahead,
                              NoEventData, Null, r.ret, FALSE, r.episodes, Null)
    /\ UNCHANGED now

CreateOrUpdateEpisodeFromEvent(event_data, podcast, commit_fails) ==
    /\ CalStep
    /\ \E r \in {create_or_update_episode_from_event(db, event_data, podcast,
                                                     commit_fails)} :
           /\ db' = r.db
           /\ last' = CalCall("create_or_update_episode_from_event", NoCalendar,
                              commit_fails, Null, event_data, podcast, r.ret, FALSE,
                              IF r.ret = Null THEN <<>> ELSE <<r.ret>>, Null)
    /\ UNCHANGED now

NextCalendar ==
    \/ \E cal \in Calendars, fault \in BOOLEAN : DailyWorkflow(cal, fault)
    \/ \E cal \in Calendars, days_ahead \in DaysAhead :
          SyncCalendarToDatabase(cal, days_ahead)
    \/ \E event_data \in EventDatas, p \in StoredPodcasts :
          CreateOrUpdateEpisodeFromEvent(event_data, p.id, FALSE)

SpecCalendar == CalInit /\ [][NextCalendar]_vars


(***************************************************************************)
(* Properties of the daily job and of the calendar ingestion               *)
(* (SpecCalendar).                                                         *)
(***************************************************************************)
DailyReturned == last.op = "process_daily_workflow" /\ ~last.raised

\* C13: process_daily_workflow returns the number of episodes the calendar
\* layer reported as today's (the length of the list it got), and on return
\* every one of them has a studio_preparation task; when none is reported it
\* returns 0 and creates no task.
C13_DailyCount ==
    [][(last'.op = "process_daily_workflow" /\ ~last'.raised) =>
          /\ last'.ret = Len(last'.eps)
          /\ \A i \in DOMAIN last'.eps :
                \E x \in db'.tasks : /\ x.episode_id = last'.eps[i]
                                     /\ x.type = "studio_preparation"
          /\ last'.eps = <<>> => last'.ret = 0 /\ db'.tasks \subseteq db.tasks]_vars

\* The job returned 2 for two different episodes of today.
C13_Witness ==
    /\ DailyReturned
    /\ last.ret = 2
    /\ last.eps[1] # last.eps[2]
    /\ \A i \in DOMAIN last.eps :
          \E x \in db.tasks : x.episode_id = last.eps[i] /\ x.type = "studio_preparation"

\* C14: the daily job is idempotent: a second run at the same time on the
\* same calendar leaves the episodes and the tasks as the first run left
\* them.
C14_DailyIdempotent ==
    [][(/\ last'.op = "process_daily_workflow"
        /\ last'.again
        /\ ~last.raised
        /\ ~last'.raised) =>
          db'.episodes = db.episodes /\ db'.tasks = db.tasks]_vars

\* The stored episodes recorded in the calendar day of now.
StoredToday ==
    {e \in DOMAIN db.episodes :
        /\ db.episodes[e].recording_date # Null
        /\ db.episodes[e].recording_date \div DAY = now \div DAY}

Names(d, title, podcast) ==
    \/ \E p \in d.podcasts :
          p.id = podcast /\ Contains(LowerStr(title), LowerStr(Strip(p.name)))
    \/ \E a \in d.aliases :
          a.podcast_id = podcast /\ Contains(LowerStr(title), LowerStr(Strip(a.alias)))

\* C17: the calendar ingestion creates no podcast and no alias, and an event
\* whose title is blank or names no known podcast produces no episode: every
\* episode the ingestion adds is recorded at the start of an event of the
\* batch whose title is not blank and names the podcast of the episode.
C17_NoPodcastCreated ==
    [][last'.op \in {"process_daily_workflow", "sync_calendar_to_database"} =>
          /\ db'.podcasts = db.podcasts
          /\ db'.aliases = db.aliases
          /\ \A e \in DOMAIN db'.episodes \ DOMAIN db.episodes :
                \E i \in DOMAIN last'.cal.events :
                    LET ev == last'.cal.events[i]
                    IN  /\ Strip(ev.summary) # <<>>
                        /\ Names(db, ev.summary, db'.episodes[e].podcast_id)
                        /\ db'.episodes[e].recording_date = ev.start
          /\ (\A i \in DOMAIN last'.cal.events :
                 \/ Strip(last'.cal.events[i].summary) = <<>>
                 \/ \A p \in db.podcasts :
                       ~Names(db, last'.cal.events[i].summary, p.id))
             => db'.episodes = db.episodes]_vars

\* A sync met a blank title and a title that names no podcast, and the
\* store holds the episode, the podcasts and the alias it started with.
C17_Witness ==
    /\ last.op = "sync_calendar_to_database"
    /\ last.cal.mode = "ok"
    /\ Len(last.cal.events) = 2
    /\ \E i \in DOMAIN last.cal.events : Strip(last.cal.events[i].summary) = <<>>
    /\ \E i \in DOMAIN last.cal.events :
          last.cal.events[i].summary = <<"A", "b", "c", " ", "5">>
    /\ now < 12
    /\ last.ret = 0
    /\ DOMAIN db.episodes = {1}
    /\ db.podcasts = StoredPodcasts

\* Two episodes of one podcast with one episode number recorded in one day.
SameTriple(d, e1, e2) ==
    /\ d.episodes[e1].podcast_id = d.episodes[e2].podcast_id
    /\ d.episodes[e1].episode_number # NoneStr
    /\ d.episodes[e1].episode_number = d.episodes[e2].episode_number
    /\ d.episodes[e1].recording_date # Null
    /\ d.episodes[e2].recording_date # Null
    /\ d.episodes[e1].recording_date \div DAY = d.episodes[e2].recording_date \div DAY

\* C18: the calendar ingestion keeps at most one episode per podcast,
\* episode number and day of recording, and ingesting the same events again
\* adds no episode that carries an episode number.
C18_OnePerTriple ==
    [][/\ \A e1, e2 \in DOMAIN db'.episodes : SameTriple(db', e1, e2) => e1 = e2
       /\ last'.again =>
             \A e \in DOMAIN db'.episodes \ DOMAIN db.episodes :
                 db'.episodes[e].episode_number = NoneStr]_vars

\* "P2 3&4" was synced twice and the store holds one episode 3 and one
\* episode 4 of the second podcast.
C18_Witness ==
    /\ last.op = "sync_calendar_to_database"
    /\ last.again
    /\ last.ret = 2
    /\ Cardinality({e \in DOMAIN db.episodes : db.episodes[e].podcast_id = 2}) = 2
    /\ \E e \in DOMAIN db.episodes :
          db.episodes[e].podcast_id = 2 /\ db.episodes[e].episode_number = <<"3">>
    /\ \E e \in DOMAIN db.episodes :
          db.episodes[e].podcast_id = 2 /\ db.episodes[e].episode_number = <<"4">>

\* C19: an event without episode number is upserted like any other, so
\* ingesting it twice leaves one episode for it: a sync that repeats the
\* sync before it adds no episode.
C19_NoNumberUpsert ==
    [][(last'.op = "sync_calendar_to_database" /\ last'.again) =>
          DOMAIN db'.episodes = DOMAIN db.episodes]_vars

\* C20: when create_or_update_episode_from_event matches an episode it sets
\* the recording date to the one of the event, fills studio, guest names and
\* notes only where the episode has none, and leaves the rest of the episode
\* alone; when it matches none it adds one episode with status not_started.
\* Either way the other episodes stay as they are.
C20_UpsertFrame ==
    [][last'.op = "create_or_update_episode_from_event" =>
          LET e == last'.ret
              ev == last'.event_data
              new == db'.episodes[e]
          IN  /\ \A x \in DOMAIN db.episodes \ {e} :
                    x \in DOMAIN db'.episodes /\ db'.episodes[x] = db.episodes[x]
              /\ DOMAIN db'.episodes = DOMAIN db.episodes \cup {e}
              /\ IF e \in DOMAIN db.episodes
                 THEN LET old == db.episodes[e]
                      IN  /\ new.recording_date = ev.recording_date
                          /\ new.studio = IF Truthy(old.studio) \/ ~Truthy(ev.studio)
                                          THEN old.studio ELSE ev.studio
                          /\ new.guest_names =
                                IF Truthy(old.guest_names) \/ ~Truthy(ev.guest_names)
                                THEN old.guest_names ELSE ev.guest_names
                          /\ new.episode_notes =
                                IF Truthy(old.episode_notes) \/ ~Truthy(ev.notes)
                                THEN old.episode_notes ELSE ev.notes
                          /\ new = [old EXCEPT !.recording_date = new.recording_date,
                                               !.studio = new.studio,
                                               !.guest_names = new.guest_names,
                                               !.episode_notes = new.episode_notes]
                 ELSE /\ new.status = "not_started"
                      /\ new.podcast_id = last'.podcast
                      /\ new.episode_number = ev.episode_number
                      /\ new.recording_date = ev.recording_date]_vars

\* "show 33" at hour 12, in room R with guest D, met the recorded episode 33
\* of hour 10 in studio A: the date moved, the studio stayed, the guest and
\* the notes were filled and the status stayed.
C20_Witness ==
    /\ last.op = "create_or_update_episode_from_event"
    /\ last.ret = 1
    /\ last.event_data.studio = <<"R">>
    /\ db.episodes[1].recording_date = 12
    /\ db.episodes[1].studio = <<"A">>
    /\ db.episodes[1].guest_names = <<"D">>
    /\ db.episodes[1].episode_notes = <<"w", "i", "t", "h", " ", "D">>
    /\ db.episodes[1].status = "recorded"
    /\ db.episodes[1].recording_engineer_id = 1
(***************************************************************************)
(* The title parser and the extraction of episode data as a state machine: *)
(* an event is drawn, and parse_event_title is applied to its summary or   *)
(* extract_episode_data_from_event to the event.                           *)
(***************************************************************************)
MaxJoins == 2

\* The numbers a title is written with, and what stands between two of them.
TitleNumbers == {<<"1">>, <<"3">>, <<"1", "4">>}

Joiners ==
    {<<"&">>, <<",", " ">>, <<"/">>, <<" ", "a", "n", "d", " ">>,
     <<" ", "A", "N", "D", " ">>, <<"-">>, <<" ">>}

\* A number followed by up to k numbers, each after a joiner.
RECURSIVE NumberLists(_)
NumberLists(k) ==
    IF k = 0 THEN TitleNumbers
    ELSE NumberLists(k - 1)
         \cup {t \o j \o n : t \in NumberLists(k - 1), j \in Joiners, n \in TitleNumbers}

\* Titles without an episode number: none, empty, blank, a name, a name
\* between blanks, and a name that ends in a digit.
PlainTitles ==
    {NoneStr, <<>>, <<" ">>, <<"S", "h", "o", "w">>, <<" ", "S", " ">>, <<"S", "3">>}

Titles == PlainTitles \cup {<<"S", " ">> \o t : t \in NumberLists(MaxJoins)}

\* Events that differ in what the location, the description and the private
\* extended properties say.
DetailedEvents ==
    {[Event(s, 10, l, g) EXCEPT !.private = p] :
        s \in {<<"S", " ", "3">>, <<"S", "h", "o", "w">>},
        l \in {NoneStr, <<>>, <<"R">>},
        g \in {NoneStr, <<"x">>, <<"w", "i", "t", "h", " ", "D">>},
        p \in [episode_number : {NoneStr, <<"9">>},
               studio : {NoneStr, <<"B">>},
               guest_names : {NoneStr, <<"G">>}]}

ParseEvents == {Event(t, 10, NoneStr, NoneStr) : t \in Titles} \cup DetailedEvents

ParseCall(op, event, ret) == [op |-> op, event |-> event, ret |-> ret]

ParseInit ==
    /\ db = PriorStore
    /\ now = 0
    /\ steps = 0
    /\ \E event \in ParseEvents : last = ParseCall("none", event, NoEventData)

ParseEventTitle ==
    /\ steps = 0
    /\ \E r \in {parse_event_title(last.event.summary)} :
           last' = ParseCall("parse_event_title", last.event, r)
    /\ steps' = 1
    /\ UNCHANGED <<db, now>>

ExtractEpisodeDataFromEvent ==
    /\ steps = 0
    /\ last.event.summary # NoneStr
    /\ \E r \in {extract_episode_data_from_event(last.event)} :
           last' = ParseCall("extract_episode_data_from_event", last.event, r)
    /\ steps' = 1
    /\ UNCHANGED <<db, now>>

NextParse == ParseEventTitle \/ ExtractEpisodeDataFromEvent

SpecParse == ParseInit /\ [][NextParse]_vars

(***************************************************************************)
(* What the claims about the parser speak of, read off the title itself.   *)
(***************************************************************************)
\* The title's characters from i up to j - 1 are a number: a run of digits
\* with no digit before or after it.
NumberAt(title, i, j) ==
    /\ 1 <= i /\ i < j /\ j <= Len(title) + 1
    /\ \A x \in i..(j - 1) : IsDigit(title[x])
    /\ i = 1 \/ ~IsDigit(title[i - 1])
    /\ j = Len(title) + 1 \/ ~IsDigit(title[j])

\* The characters from j up to k - 1 are one of the given separators,
\* in any letter case, with any blanks around it.
SeparatorAt(title, j, k, separators) ==
    \E a \in j..k : \E b \in a..k :
        /\ \A x \in j..(a - 1) : IsSpace(title[x])
        /\ \A x \in b..(k - 1) : IsSpace(title[x])
        /\ LowerStr(SubSeq(title, a, b - 1)) \in separators

\* The pairs <<N, M>> of numbers of the title with a separator between them.
NumberPairs(title, separators) ==
    {<<SubSeq(title, q[1], q[2] - 1), SubSeq(title, q[3], q[4] - 1)>> :
        q \in {p \in (1..(Len(title) + 1)) \X (1..(Len(title) + 1))
                       \X (1..(Len(title) + 1)) \X (1..(Len(title) + 1)) :
                  /\ NumberAt(title, p[1], p[2])
                  /\ p[2] <= p[3]
                  /\ SeparatorAt(title, p[2], p[3], separators)
                  /\ NumberAt(title, p[3], p[4])}}

\* Where the number n first occurs in the title (0: nowhere).
FirstOccurrence(title, n) ==
    LET at == {i \in 1..Len(title) : NumberAt(title, i, i + Len(n))
                                      /\ SubSeq(title, i, i + Len(n) - 1) = n}
    IN  IF at = {} THEN 0 ELSE CHOOSE i \in at : \A j \in at : i <= j

Elements(list) == {list[i] : i \in DOMAIN list}

NoDuplicates(list) == \A i, j \in DOMAIN list : list[i] = list[j] => i = j

ListSeparators == {<<"&">>, <<",">>, <<"/">>, <<"a", "n", "d">>}

Parsed == last.op = "parse_event_title" /\ last.event.summary # NoneStr

\* C24: when the title holds two numbers joined by '&', ',', '/' or 'and'
\* (any letter case), episode_numbers holds both of them, lists the numbers
\* of the title in the order of their first occurrence, and has no
\* duplicates.
C24_JoinedNumbers ==
    Parsed =>
        LET title == last.event.summary
            numbers == last.ret.episode_numbers
        IN  \A pair \in NumberPairs(title, ListSeparators) :
                /\ pair[1] \in Elements(numbers)
                /\ pair[2] \in Elements(numbers)
                /\ NoDuplicates(numbers)
                /\ \A i, j \in DOMAIN numbers :
                      (i < j /\ FirstOccurrence(title, numbers[i]) > 0
                             /\ FirstOccurrence(title, numbers[j]) > 0)
                      => FirstOccurrence(title, numbers[i])
                            < FirstOccurrence(title, numbers[j])

\* The ranges N-M of the title: two numbers with a hyphen between them.
Ranges(title) == NumberPairs(title, {<<"-">>})

Span(range) == IntOf(range[2]) - IntOf(range[1])

\* C25: when the title holds a range N-M with 0 <= M - N <= 10,
\* episode_numbers holds every integer from N to M, written in decimal.
C25_RangeExpanded ==
    Parsed =>
        \A range \in Ranges(last.event.summary) :
            (0 <= Span(range) /\ Span(range) <= 10) =>
                \A n \in IntOf(range[1])..IntOf(range[2]) :
                    StrOf(n) \in Elements(last.ret.episode_numbers)

\* The numbers an expanded range stands for.
Expanded(title) ==
    UNION {{StrOf(n) : n \in IntOf(range[1])..IntOf(range[2])} :
              range \in {r \in Ranges(title) : 0 <= Span(r) /\ Span(r) <= 10}}

\* C26: when the title holds a range N-M with M - N > 10 or N > M,
\* episode_numbers holds N and M, and it holds no number that is neither
\* written in the title nor part of a range of at most ten.
C26_WideRangeEnds ==
    Parsed =>
        LET title == last.event.summary
            numbers == Elements(last.ret.episode_numbers)
        IN  \A range \in Ranges(title) :
                (Span(range) > 10 \/ Span(range) < 0) =>
                    /\ range[1] \in numbers
                    /\ range[2] \in numbers
                    /\ \A n \in numbers :
                          FirstOccurrence(title, n) > 0 \/ n \in Expanded(title)

\* What C27 says of every parse but the podcast name of a title without
\* numbers: no duplicates; episode_number is the first of episode_numbers
\* and None exactly when there is none; a null or empty title gives None,
\* None and the empty list; a title without a digit has no episode number.
ParseWellFormed ==
    LET title == last.event.summary
        ret == last.ret
    IN  /\ NoDuplicates(ret.episode_numbers)
        /\ ret.episode_numbers # <<>> => ret.episode_number = ret.episode_numbers[1]
        /\ ret.episode_number = NoneStr <=> ret.episode_numbers = <<>>
        /\ title \in {NoneStr, <<>>} =>
              /\ ret.podcast_name = NoneStr
              /\ ret.episode_number = NoneStr
              /\ ret.episode_numbers = <<>>
        /\ (title # NoneStr /\ \A i \in DOMAIN title : ~IsDigit(title[i])) =>
              ret.episode_numbers = <<>>

\* C27 as stated: the result of parse_event_title is well-formed, and for a
\* title (not null, not empty) in which no number is found podcast_name is
\* the trimmed title.
C27_WellFormed ==
    last.op = "parse_event_title" =>
        /\ ParseWellFormed
        /\ (last.event.summary \notin {NoneStr, <<>>} /\ last.ret.episode_numbers = <<>>) =>
              last.ret.podcast_name = Strip(last.event.summary)

\* C27, amended: the result of parse_event_title is well-formed, and for a
\* title in which no number is found podcast_name is the trimmed title, or
\* None when the trimmed title is empty.
C27_WellFormedOrNull ==
    last.op = "parse_event_title" =>
        /\ ParseWellFormed
        /\ (last.event.summary \notin {NoneStr, <<>>} /\ last.ret.episode_numbers = <<>>) =>
              last.ret.podcast_name =
                  IF Strip(last.event.summary) = <<>> THEN NoneStr
                  ELSE Strip(last.event.summary)

\* parse_event_title has met a title with blanks around a name and returned
\* the name, and no episode number.
C27_Witness ==
    /\ last.op = "parse_event_title"
    /\ last.event.summary = <<" ", "S", " ">>
    /\ last.ret = [podcast_name |-> <<"S">>, episode_number |-> NoneStr,
                   episode_numbers |-> <<>>]

\* The value a private extended property fills a field with: the derived
\* value when there is one, else the property when the event has it.
Filled(derived, property) ==
    IF Truthy(derived) \/ property = NoneStr THEN derived ELSE property

\* C28: in the result of extract_episode_data_from_event the episode number
\* found in the title, the location and the guest names found in the
\* description stand whenever they are not empty; the private extended
\* properties episode_number, studio and guest_names fill only the fields
\* for which nothing was found.
C28_PrivateFillsEmpty ==
    last.op = "extract_episode_data_from_event" =>
        LET event == last.event
            description == IF event.description = NoneStr THEN <<>> ELSE event.description
        IN  /\ last.ret.episode_number =
                  Filled(parse_event_title(event.summary).episode_number,
                         event.private.episode_number)
            /\ last.ret.studio = Filled(event.location, event.private.studio)
            /\ last.ret.guest_names =
                  Filled(GuestNames(description), event.private.guest_names)

\* An event with all three private properties, a location, and neither an
\* episode number in its title nor a guest in its description: the location
\* stands, the episode number and the guest names are the properties'.
C28_Witness ==
    /\ last.op = "extract_episode_data_from_event"
    /\ last.event.summary = <<"S", "h", "o", "w">>
    /\ last.event.location = <<"R">>
    /\ last.event.description = <<"x">>
    /\ last.event.private = [episode_number |-> <<"9">>, studio |-> <<"B">>,
                             guest_names |-> <<"G">>]
    /\ last.ret.episode_number = <<"9">>
    /\ last.ret.studio = <<"R">>
    /\ last.ret.guest_names = <<"G">>

(***************************************************************************)
(* The podcast look-ups as a state machine: a store of two podcasts and a  *)
(* few aliases is drawn with a text, and find_podcast_by_name_or_alias or  *)
(* find_podcast_from_event_title is applied to the text.                   *)
(***************************************************************************)
MaxAliases == 2

PodcastNames == {<<"A", "b">>, <<"a", "b">>, <<"A", "b", "c">>, <<"b">>}

\* The alias texts on file are unique and stripped (add_podcast_alias); one
\* may differ from another, or from a name, in letter case only.
AliasTexts == <<(<<"a", "b">>), (<<"A", "B">>), (<<"b", "c">>)>>

\* The alias tables: each alias text is absent or belongs to a podcast.
AliasTables ==
    {{[id |-> i, podcast_id |-> f[i], alias |-> AliasTexts[i]] :
         i \in {j \in DOMAIN AliasTexts : f[j] # Null}} :
     f \in {g \in [DOMAIN AliasTexts -> {Null, 1, 2}] :
               Cardinality({j \in DOMAIN AliasTexts : g[j] # Null}) <= MaxAliases}}

LookupStores ==
    {[PriorStore EXCEPT !.podcasts = {[id |-> 1, name |-> n[1]], [id |-> 2, name |-> n[2]]},
                        !.aliases = t] :
        n \in {m \in PodcastNames \X PodcastNames : m[1] # m[2]}, t \in AliasTables}

\* The texts looked up: none, empty, blank, names and aliases in one letter
\* case or another and between blanks, titles that hold them, a text that
\* matches nothing, and texts with the characters LIKE reads as wildcards.
LookupTexts ==
    {NoneStr, <<>>, <<" ">>, <<"A", "b">>, <<"a", "b">>, <<"A", "B">>, <<" ", "a", "b", " ">>,
     <<"b", "c">>, <<"x", " ", "a", "b", "c", " ", "3">>, <<"x", " ", "B", " ", "3">>,
     <<"x", "y">>, <<"a", "_">>, <<"%">>}

LookupCall(op, text, ret) == [op |-> op, text |-> text, ret |-> ret]

LookupInit ==
    /\ db \in LookupStores
    /\ now = 0
    /\ steps = 0
    /\ \E text \in LookupTexts : last = LookupCall("none", text, Null)

FindPodcastByNameOrAlias ==
    /\ steps = 0
    /\ last' = LookupCall("find_podcast_by_name_or_alias", last.text,
                          find_podcast_by_name_or_alias(db, last.text))
    /\ steps' = 1
    /\ UNCHANGED <<db, now>>

FindPodcastFromEventTitle ==
    /\ steps = 0
    /\ last' = LookupCall("find_podcast_from_event_title", last.text,
                          find_podcast_from_event_title(db, last.text))
    /\ steps' = 1
    /\ UNCHANGED <<db, now>>

NextLookup == FindPodcastByNameOrAlias \/ FindPodcastFromEventTitle

SpecLookup == LookupInit /\ [][NextLookup]_vars

\* The podcasts the stages of the look-up hit for a text: the name is the
\* text, the name is the text but for letter case, an alias is the text, an
\* alias is the text but for letter case.
Hits(d, text) ==
    <<{p.id : p \in {q \in d.podcasts : q.name = text}},
      {p.id : p \in {q \in d.podcasts : LowerStr(q.name) = LowerStr(text)}},
      {a.podcast_id : a \in {b \in d.aliases : b.alias = text}},
      {a.podcast_id : a \in {b \in d.aliases : LowerStr(b.alias) = LowerStr(text)}}>>

\* C22: find_podcast_by_name_or_alias returns a hit of the first stage that
\* has one, in the order exact name, name without regard to case, exact
\* alias, alias without regard to case; it returns None when no stage has a
\* hit or the text is none or blank; and it leaves the store as it is.
C22_FirstHit ==
    [][last'.op = "find_podcast_by_name_or_alias" =>
          /\ db' = db
          /\ LET text == last'.text
                 hits == Hits(db, Strip(text))
                 stages == {i \in 1..4 : hits[i] # {}}
             IN  IF text = NoneStr \/ Strip(text) = <<>> \/ stages = {}
                 THEN last'.ret = Null
                 ELSE last'.ret \in hits[CHOOSE i \in stages : \A j \in stages : i <= j]]_vars

\* The names and aliases that occur in the title without regard to letter
\* case, each with the podcast that owns it and its length.
Occurring(d, title) ==
    {[podcast_id |-> p.id, length |-> Len(Strip(p.name))] :
        p \in {q \in d.podcasts : Contains(LowerStr(title), LowerStr(Strip(q.name)))}}
    \cup {[podcast_id |-> a.podcast_id, length |-> Len(Strip(a.alias))] :
        a \in {b \in d.aliases : Contains(LowerStr(title), LowerStr(Strip(b.alias)))}}

\* C23: when the whole title is no name and no alias in any letter case,
\* find_podcast_from_event_title returns the owner of a name or alias that
\* occurs in the title and is no shorter than any other that occurs, and
\* returns None exactly when none occurs.
C23_LongestOccurring ==
    (/\ last.op = "find_podcast_from_event_title"
     /\ Truthy(last.text)
     /\ \A i \in 1..4 : Hits(db, Strip(last.text))[i] = {}) =>
        LET found == Occurring(db, Strip(last.text))
        IN  IF found = {} THEN last.ret = Null
            ELSE \E c \in found : /\ c.podcast_id = last.ret
                                  /\ \A o \in found : o.length <= c.length

(***************************************************************************)
(* Batches in which the processing of an event fails: the start time of    *)
(* the event cannot be read, or the commit of one of its episodes raises.  *)
(***************************************************************************)
\* "Show 33" at hour 10 (the episode on file) and "P2 3&4" at hour 12 (two
\* new episodes of the second podcast), each sound, with a start time that
\* cannot be read, or with a commit that raises.
FailingEvents ==
    {[Event(<<"S", "h", "o", "w", " ", "3", "3">>, 10, <<"R">>, NoneStr)
         EXCEPT !.malformed = f[1], !.commit_fails = f[2]] :
        f \in {<<FALSE, {}>>, <<TRUE, {}>>, <<FALSE, {1}>>}}
    \cup {[Event(<<"P", "2", " ", "3", "&", "4">>, 12, NoneStr, NoneStr)
              EXCEPT !.malformed = f[1], !.commit_fails = f[2]] :
             f \in {<<FALSE, {}>>, <<TRUE, {}>>, <<FALSE, {1}>>, <<FALSE, {2}>>}}

FailingCalendars ==
    {[mode |-> "ok", events |-> b] :
        b \in {<<a>> : a \in FailingEvents}
              \cup {c \in FailingEvents \X FailingEvents : c[1].start < c[2].start}}

NextBatch ==
    \/ \E cal \in FailingCalendars : DailyWorkflow(cal, FALSE)
    \/ \E cal \in FailingCalendars : SyncCalendarToDatabase(cal, Null)
    \/ \E event_data \in EventDatas, p \in StoredPodcasts, commit_fails \in BOOLEAN :
          CreateOrUpdateEpisodeFromEvent(event_data, p.id, commit_fails)

SpecBatch == CalInit /\ [][NextBatch]_vars

\* The start is in the window of the call c made at time t: the day of t
\* for the daily job, the look-ahead from t on for a sync.
InWindow(c, t, start) ==
    IF c.op = "process_daily_workflow"
    THEN start \div DAY = t \div DAY
    ELSE t <= start /\ start < t + GOOGLE_CALENDAR_LOOKAHEAD_DAYS * DAY

\* The passes of the batch of call c that do not fail: event i of the
\* calendar starts in the window, its start time can be read, its title
\* names a podcast of the store d, and the commit for its k-th episode
\* number does not raise.
SoundPasses(c, t, d) ==
    {p \in (DOMAIN c.cal.events) \X (1..2) :
        LET ev == c.cal.events[p[1]]
        IN  /\ InWindow(c, t, ev.start)
            /\ ~ev.malformed
            /\ find_podcast_from_event_title(d, ev.summary) # Null
            /\ p[2] \in DOMAIN ParseTitle(ev.summary).episode_numbers
            /\ p[2] \notin ev.commit_fails}

\* The row is the episode of pass p: same podcast, same number, recorded on
\* the day of the event.
EpisodeOfPass(c, d, row, p) ==
    LET ev == c.cal.events[p[1]]
    IN  /\ row.podcast_id = find_podcast_from_event_title(d, ev.summary)
        /\ row.episode_number = ParseTitle(ev.summary).episode_numbers[p[2]]
        /\ row.recording_date # Null
        /\ row.recording_date \div DAY = ev.start \div DAY

Batch(c) ==
    /\ c.op \in {"process_daily_workflow", "sync_calendar_to_database"}
    /\ c.cal.mode = "ok"

\* C21: a failure on one event of a batch does not stop the batch.  Every
\* pass that does not fail has its episode in the store and in the result;
\* the result holds one episode per such pass and only stored episodes; and
\* every episode the batch added is the episode of such a pass, so nothing
\* of a failed pass was stored.
C21_FailuresSkipped ==
    [][Batch(last') =>
          /\ \A p \in SoundPasses(last', now, db) :
                \E i \in DOMAIN last'.eps :
                    /\ last'.eps[i] \in DOMAIN db'.episodes
                    /\ EpisodeOfPass(last', db, db'.episodes[last'.eps[i]], p)
          /\ Len(last'.eps) = Cardinality(SoundPasses(last', now, db))
          /\ \A i \in DOMAIN last'.eps : last'.eps[i] \in DOMAIN db'.episodes
          /\ \A e \in DOMAIN db'.episodes \ DOMAIN db.episodes :
                \E p \in SoundPasses(last', now, db) :
                    EpisodeOfPass(last', db, db'.episodes[e], p)]_vars

\* A sync met "Show 33" with a start time that cannot be read and then
\* "P2 3&4" whose first commit raised: it reports one episode, episode 4 of
\* the second podcast is stored and episode 3 is not.
C21_Witness ==
    /\ last.op = "sync_calendar_to_database"
    /\ Len(last.cal.events) = 2
    /\ last.cal.events[1].malformed
    /\ last.cal.events[2].commit_fails = {1}
    /\ last.ret = 1
    /\ \E e \in DOMAIN db.episodes :
          db.episodes[e].podcast_id = 2 /\ db.episodes[e].episode_number = <<"4">>
    /\ \A e \in DOMAIN db.episodes :
          ~(db.episodes[e].podcast_id = 2 /\ db.episodes[e].episode_number = <<"3">>)

(***************************************************************************)
(* The task lists of the API.  A list is the sequence of the ids of the    *)
(* tasks returned.                                                         *)
(***************************************************************************)
DEFAULT_NOTIFICATION_DAYS == 7

\* Mutant: the lists keep a studio preparation until it is two days late.
exclude_stale_studio_prep_filter_two_days(x, t) ==
    \/ x.type # "studio_preparation"
    \/ x.due_date = Null
    \/ x.due_date >= t - 2 * DAY

\* _exclude_stale_studio_prep_filter(), for the row x at time t
exclude_stale_studio_prep_filter(x, t) ==
    \/ x.type # "studio_preparation"
    \/ x.due_date = Null
    \/ x.due_date >= t - DAY

\* order_by(Task.due_date.asc()), rows without due date last; rows with the
\* same due date in the order of their ids.
Earliest(S) ==
    CHOOSE x \in S : \A y \in S :
        \/ y.due_date = Null /\ (x.due_date # Null \/ x.id <= y.id)
        \/ /\ x.due_date # Null /\ y.due_date # Null
           /\ (x.due_date < y.due_date \/ (x.due_date = y.due_date /\ x.id <= y.id))

RECURSIVE ByDueDate(_)
ByDueDate(S) ==
    IF S = {} THEN <<>>
    ELSE <<Earliest(S).id>> \o ByDueDate(S \ {Earliest(S)})

\* .offset(skip).limit(limit)
Page(list, skip, limit) ==
    SubSeq(list, skip + 1, IF skip + limit < Len(list) THEN skip + limit ELSE Len(list))

\* The query parameters of get_tasks; Null and Unset: the filter is left out.
NoFilter == [status |-> Unset, task_type |-> Unset, skip |-> 0, limit |-> 100]

get_tasks(d, t, q) ==
    Page(ByDueDate({x \in d.tasks :
                       /\ exclude_stale_studio_prep_filter(x, t)
                       /\ q.status = Unset \/ x.status = q.status
                       /\ q.task_type = Unset \/ x.type = q.task_type}),
         q.skip, q.limit)

get_due_tasks(d, t, days_ahead) ==
    ByDueDate({x \in d.tasks :
                  /\ exclude_stale_studio_prep_filter(x, t)
                  /\ x.due_date # Null
                  /\ x.due_date >= t
                  /\ x.due_date <= t + days_ahead * DAY
                  /\ x.status \notin {"done", "skipped"}})

get_overdue_tasks(d, t) ==
    ByDueDate({x \in d.tasks :
                  /\ exclude_stale_studio_prep_filter(x, t)
                  /\ x.due_date # Null
                  /\ x.due_date < t
                  /\ x.status \notin {"done", "skipped"}})

(***************************************************************************)
(* The lists as a state machine: over a task table drawn with due dates    *)
(* around the time 24 hours before now, the lists are read and the stale   *)
(* studio preparations are deleted.                                        *)
(***************************************************************************)
MaxTasks == 2

\* How many calls a behaviour has.
MaxReads == 2

ViewNow == MaxNow

\* The rows on file: studio preparations and recordings, open or done,
\* without due date, due 25, 24 and 23 hours before now, and due in 10 hours.
ViewRows ==
    [type : {"studio_preparation", "recording"},
     status : {"not_started", "done"},
     due_date : {Null, ViewNow - DAY - 1, ViewNow - DAY, ViewNow - DAY + 1, ViewNow + 10}]

ViewStores ==
    {[episodes |-> [e \in EpisodeIds |-> InitialEpisode(e)],
      tasks |-> {[id |-> i, episode_id |-> 1, type |-> rows[i].type,
                  status |-> rows[i].status, assigned_to |-> Null,
                  due_date |-> rows[i].due_date, completed_at |-> Null] :
                    i \in DOMAIN rows},
      nextId |-> Len(rows) + 1] :
        rows \in UNION {[1..n -> ViewRows] : n \in 0..MaxTasks}}

TaskQueries ==
    {[NoFilter EXCEPT !.status = s, !.task_type = y, !.skip = p[1], !.limit = p[2]] :
        s \in {Unset, "done"}, y \in {Unset, "studio_preparation"},
        p \in {<<0, 100>>, <<1, 1>>}}

ViewInit ==
    /\ db \in ViewStores
    /\ now = ViewNow
    /\ last = [op |-> "init", ep |-> Null, task |-> Null, old |-> Unset,
               upd |-> NoUpdate, ret |-> Null, again |-> FALSE]
    /\ steps = 0

\* A read: the request and the list returned are recorded.
Read(op, request, list) ==
    /\ steps < MaxReads
    /\ steps' = steps + 1
    /\ last' = Call(op, Null, Null, Unset, request, list)
    /\ UNCHANGED <<db, now>>

GetTasks(q) == Read("get_tasks", q, get_tasks(db, now, q))

GetDueTasks(days_ahead) ==
    Read("get_due_tasks", days_ahead, get_due_tasks(db, now, days_ahead))

GetOverdueTasks == Read("get_overdue_tasks", Null, get_overdue_tasks(db, now))

DeleteStale ==
    /\ steps < MaxReads
    /\ DeleteStaleStudioPreparationTasks

NextViews ==
    \/ \E q \in TaskQueries : GetTasks(q)
    \/ \E days_ahead \in {DEFAULT_NOTIFICATION_DAYS, 0} : GetDueTasks(days_ahead)
    \/ GetOverdueTasks
    \/ DeleteStale

SpecViews == ViewInit /\ [][NextViews]_vars

\* The tasks delete_stale_studio_preparation_tasks would delete now.
WouldDelete == db.tasks \ delete_stale_studio_preparation_tasks(db, now).db.tasks

\* The tasks a list would hold but for staleness: the tasks that meet its
\* other conditions.
Eligible ==
    IF last.op = "get_tasks"
    THEN {x \in db.tasks : /\ last.upd.status = Unset \/ x.status = last.upd.status
                           /\ last.upd.task_type = Unset \/ x.type = last.upd.task_type}
    ELSE IF last.op = "get_due_tasks"
    THEN {x \in db.tasks : /\ x.due_date # Null
                           /\ x.due_date >= now
                           /\ x.due_date <= now + last.upd * DAY
                           /\ x.status \notin {"done", "skipped"}}
    ELSE {x \in db.tasks : /\ x.due_date # Null
                           /\ x.due_date < now
                           /\ x.status \notin {"done", "skipped"}}

Listed == {last.ret[i] : i \in DOMAIN last.ret}

\* C29: get_tasks, get_due_tasks and get_overdue_tasks never return a studio
\* preparation that was due more than 24 hours ago, and the tasks a whole
\* list (no page cut off) leaves out although they meet its other
\* conditions are exactly the ones delete_stale_studio_preparation_tasks
\* would delete at the same time.
C29_ListsExcludeStale ==
    last.op \in {"get_tasks", "get_due_tasks", "get_overdue_tasks"} =>
        /\ \A x \in db.tasks :
              x.id \in Listed =>
                  ~(x.type = "studio_preparation" /\ x.due_date # Null
                    /\ now - x.due_date > DAY)
        /\ (last.op = "get_tasks" => (last.upd.skip = 0 /\ last.upd.limit >= Len(last.ret) + 1)) =>
              {x \in Eligible : x.id \notin Listed} = Eligible \cap WouldDelete

\* get_tasks without filter has left out a studio preparation due 25 hours
\* ago and returned one due 24 hours ago.
C29_Witness ==
    /\ last.op = "get_tasks"
    /\ last.upd = NoFilter
    /\ \E x, y \in db.tasks :
          /\ x.type = "studio_preparation" /\ x.due_date = now - DAY - 1
          /\ y.type = "studio_preparation" /\ y.due_date = now - DAY
          /\ x.id \notin Listed
          /\ y.id \in Listed

(***************************************************************************)
(* Two automation triggers at once.  A trigger runs its steps one after    *)
(* the other; each step first queries the store and then commits what it   *)
(* decided on what the query saw, and between the two the other trigger    *)
(* may run.                                                                *)
(***************************************************************************)
\* Mutant: the publishing task is attempted before the two syncs.
EpisodeStages_publishing_first(status) ==
    (IF status = "recorded"
     THEN <<"auto_complete_studio_preparation", "create_editing_task", "create_reels_task">>
     ELSE <<>>)
    \o <<"create_publishing_task", "sync_editing_task_status", "sync_reels_task_status">>

\* The steps of process_episode_status_change for an episode of this status.
EpisodeStages(status) ==
    (IF status = "recorded"
     THEN <<"auto_complete_studio_preparation", "create_editing_task", "create_reels_task">>
     ELSE <<>>)
    \o <<"sync_editing_task_status", "sync_reels_task_status", "create_publishing_task">>

\* A trigger g is process_episode_status_change for the episode g.ep
\* (g.task is Null) or process_task_status_change for the task g.task of
\* that episode with the old status g.old.  Its steps, on the store d:
TriggerStages(d, g) ==
    IF g.task = Null THEN EpisodeStages(d.episodes[g.ep].status)
    ELSE IF g.old = "done" \/ TaskById(d, g.task).status # "done" THEN <<>>
    ELSE IF TaskById(d, g.task).type = "studio_preparation"
         THEN <<"create_recording_task">>
    ELSE IF TaskById(d, g.task).type = "recording"
         THEN <<"set_recorded">> \o EpisodeStages("recorded")
    ELSE <<>>

\* What a step makes of the store it queried.
RunStage(stage, d, e, t) ==
    CASE stage = "auto_complete_studio_preparation" -> auto_complete_studio_preparation(d, e, t)
      [] stage = "create_editing_task" -> create_editing_task(d, e).db
      [] stage = "create_reels_task" -> create_reels_task(d, e).db
      [] stage = "sync_editing_task_status" -> sync_editing_task_status(d, e, t)
      [] stage = "sync_reels_task_status" -> sync_reels_task_status(d, e, t)
      [] stage = "create_publishing_task" -> create_publishing_task(d, e).db
      [] stage = "create_recording_task" -> create_recording_task(d, e, t).db
      [] stage = "set_recorded" -> [d EXCEPT !.episodes[e].status = "recorded"]

\* db.commit() of a step that queried the store seen and made the store made of it:
\* the rows it added are inserted into the store cur as it is now, the rows
\* it changed are updated there.
CommitTo(cur, seen, made) ==
    LET added == {r \in made.tasks : r.id \notin TaskIds(seen)}
        changed == {r \in made.tasks : r.id \in TaskIds(seen) /\ r \notin seen.tasks}
    IN  [cur EXCEPT
           !.tasks = {IF \E c \in changed : c.id = x.id
                      THEN CHOOSE c \in changed : c.id = x.id
                      ELSE x : x \in cur.tasks}
                     \cup {[r EXCEPT !.id = cur.nextId] : r \in added},
           !.nextId = @ + Cardinality(added),
           !.episodes = [x \in DOMAIN cur.episodes |->
                            IF made.episodes[x] # seen.episodes[x]
                            THEN made.episodes[x] ELSE cur.episodes[x]]]

\* The trigger run on its own.
RunTrigger(d, g, t) ==
    IF g.task = Null THEN process_episode_status_change(d, g.ep, t)
    ELSE process_task_status_change(d, g.task, g.old, t)

\* What an episode is like when a trigger arrives: its status, the client's
\* approvals, and its tasks (type and status).
EpisodeProfiles ==
    {[status |-> "recorded", editing |-> "pending", reels |-> "pending",
      tasks |-> <<[type |-> "studio_preparation", status |-> "not_started"]>>],
     [status |-> "recorded", editing |-> "approved", reels |-> "approved",
      tasks |-> <<[type |-> "editing", status |-> "sent_to_client"],
                  [type |-> "reels", status |-> "done"]>>],
     [status |-> "not_started", editing |-> "pending", reels |-> "pending",
      tasks |-> <<[type |-> "studio_preparation", status |-> "done"],
                  [type |-> "recording", status |-> "done"]>>],
     [status |-> "in_editing", editing |-> "rejected", reels |-> "approved",
      tasks |-> <<[type |-> "editing", status |-> "done"]>>]}

\* The store with the first episode like f and the second like g.
ProfileStore(f, g) ==
    LET row(e, p, i, id) ==
            [id |-> id, episode_id |-> e, type |-> p.tasks[i].type,
             status |-> p.tasks[i].status, assigned_to |-> Null, due_date |-> Null,
             completed_at |-> IF p.tasks[i].status = "done" THEN 0 ELSE Null]
        episode(e, p) ==
            [InitialEpisode(e) EXCEPT !.status = p.status,
                                      !.client_approved_editing = p.editing,
                                      !.client_approved_reels = p.reels]
    IN  [episodes |-> [e \in EpisodeIds |-> IF e = 1 THEN episode(1, f) ELSE episode(2, g)],
         tasks |-> {row(1, f, i, i) : i \in DOMAIN f.tasks}
                   \cup {row(2, g, i, Len(f.tasks) + i) : i \in DOMAIN g.tasks},
         nextId |-> Len(f.tasks) + Len(g.tasks) + 1]

\* The triggers that may arrive for episode e of the store d.
Triggers(d, e) ==
    {[ep |-> e, task |-> Null, old |-> Unset]}
    \cup {[ep |-> e, task |-> x.id, old |-> o] :
             x \in {y \in d.tasks : y.episode_id = e}, o \in OldStatuses}

NotQueried == [queried |-> FALSE]

\* The two triggers under way: where the store started, what each trigger
\* is, the steps it has left, the store its current step queried, and
\* whether a trigger ever ran a step while the other was under way.
InterInit ==
    /\ db \in {ProfileStore(f, g) : f \in EpisodeProfiles, g \in EpisodeProfiles}
    /\ now = 1
    /\ steps = 0
    /\ \E g1 \in Triggers(db, 1), g2 \in Triggers(db, 2) :
          last = [op |-> "triggers", start |-> db, overlap |-> FALSE,
                  procs |-> <<[trigger |-> g1, left |-> TriggerStages(db, g1),
                               started |-> FALSE, seen |-> NotQueried],
                              [trigger |-> g2, left |-> TriggerStages(db, g2),
                               started |-> FALSE, seen |-> NotQueried]>>]

UnderWay(proc) == proc.started /\ proc.left # <<>>

\* The query of the next step of trigger p.
Query(p) ==
    /\ last.procs[p].left # <<>>
    /\ last.procs[p].seen = NotQueried
    /\ last' = [last EXCEPT !.procs[p].seen = db,
                            !.procs[p].started = TRUE,
                            !.overlap = @ \/ UnderWay(last.procs[3 - p])]
    /\ UNCHANGED <<db, now, steps>>

\* The commit of the step of trigger p that has queried.
Commit(p) ==
    /\ last.procs[p].seen # NotQueried
    /\ db' = CommitTo(db, last.procs[p].seen,
                      RunStage(Head(last.procs[p].left), last.procs[p].seen,
                               last.procs[p].trigger.ep, now))
    /\ last' = [last EXCEPT !.procs[p].seen = NotQueried,
                            !.procs[p].left = Tail(@),
                            !.overlap = @ \/ UnderWay(last.procs[3 - p])]
    /\ UNCHANGED <<now, steps>>

NextInterleaved == \E p \in {1, 2} : Query(p) \/ Commit(p)

SpecInterleaved == InterInit /\ [][NextInterleaved]_vars

\* The store without the ids of its tasks.
Content(d) ==
    [episodes |-> d.episodes,
     tasks |-> {[episode_id |-> x.episode_id, type |-> x.type, status |-> x.status,
                 assigned_to |-> x.assigned_to, due_date |-> x.due_date,
                 completed_at |-> x.completed_at] : x \in d.tasks}]

AllDone(c) == \A p \in {1, 2} : c.procs[p].left = <<>>

\* C30: a step of the trigger for one episode leaves the other episode and
\* the tasks of the other episode as they are, and when both triggers are
\* through, the store is (but for the ids of the tasks) the one that results
\* from running the first and then the second, and the one that results
\* from running the second and then the first.
C30_TriggersIndependent ==
    [][/\ \A p \in {1, 2} :
             last'.procs[p] # last.procs[p] =>
                 LET other == last.procs[3 - p].trigger.ep
                 IN  /\ db'.episodes[other] = db.episodes[other]
                     /\ {x \in db'.tasks : x.episode_id = other}
                           = {x \in db.tasks : x.episode_id = other}
       /\ AllDone(last') =>
             LET g1 == last'.procs[1].trigger
                 g2 == last'.procs[2].trigger
             IN  /\ Content(db') = Content(RunTrigger(RunTrigger(last'.start, g1, now), g2, now))
                 /\ Content(db') = Content(RunTrigger(RunTrigger(last'.start, g2, now), g1, now))
      ]_vars

\* Both triggers are through, each ran while the other was under way, and
\* each has added a task to its episode.
C30_Witness ==
    /\ last.op = "triggers"
    /\ AllDone(last)
    /\ last.overlap
    /\ \A e \in {1, 2} :
          Cardinality({x \in db.tasks : x.episode_id = e})
             > Cardinality({x \in last.start.tasks : x.episode_id = e})


(***************************************************************************)
(* Two automation triggers for the same episode at once: the steps of      *)
(* both query and commit as above, on the first episode.                   *)
(***************************************************************************)
RaceInit ==
    /\ db \in {ProfileStore(f, g) : f \in EpisodeProfiles, g \in EpisodeProfiles}
    /\ now = 1
    /\ steps = 0
    /\ \E g1 \in Triggers(db, 1), g2 \in Triggers(db, 1) :
          last = [op |-> "triggers", start |-> db, overlap |-> FALSE,
                  procs |-> <<[trigger |-> g1, left |-> TriggerStages(db, g1),
                               started |-> FALSE, seen |-> NotQueried],
                              [trigger |-> g2, left |-> TriggerStages(db, g2),
                               started |-> FALSE, seen |-> NotQueried]>>]

SpecRace == RaceInit /\ [][NextInterleaved]_vars

\* C38: while and after two triggers for the same episode run with their
\* queries and commits interleaved, the episode has at most one task of
\* each type.
C38_AtMostOneWhenInterleaved ==
    last.op = "triggers" =>
        \A ty \in TaskTypes : Cardinality(TasksOf(db, last.procs[1].trigger.ep, ty)) <= 1

(***************************************************************************)
(* PUT /episodes/{episode_id} with an automation that may fail.  fault is  *)
(* the number of the step of process_episode_status_change that raises     *)
(* (the steps before it have committed), or Null when none does.           *)
(***************************************************************************)
RECURSIVE RunStages(_, _, _, _)
RunStages(stages, d, e, t) ==
    IF stages = <<>> THEN d
    ELSE RunStages(Tail(stages), RunStage(Head(stages), d, e, t), e, t)

\* "try: process_episode_status_change(db, db_episode, old_status)"
TryAutomation(d, e, t, fault) ==
    IF fault # Null /\ fault <= Len(EpisodeStages(d.episodes[e].status))
    THEN [db |-> RunStages(SubSeq(EpisodeStages(d.episodes[e].status), 1, fault - 1),
                           d, e, t),
          raised |-> TRUE]
    ELSE [db |-> process_episode_status_change(d, e, t), raised |-> FALSE]

\* Mutant: a failure of the automation fails the request.
update_episode_request_fails_with_automation(d, e, upd, t, fault) ==
    IF e \notin DOMAIN d.episodes
    THEN [db |-> d, status |-> 404, ret |-> Null, called |-> FALSE, raised |-> FALSE]
    ELSE LET old_status == d.episodes[e].status
             row == [d.episodes[e] EXCEPT
                       !.status = IF upd.status # Unset THEN upd.status ELSE @,
                       !.client_approved_editing =
                           IF upd.client_approved_editing # Unset
                           THEN upd.client_approved_editing ELSE @,
                       !.client_approved_reels =
                           IF upd.client_approved_reels # Unset
                           THEN upd.client_approved_reels ELSE @]
             d1 == [d EXCEPT !.episodes[e] = row]
         IN  IF \/ old_status # row.status
                \/ upd.client_approved_editing # Unset
                \/ upd.client_approved_reels # Unset
             THEN Bind(TryAutomation(d1, e, t, fault), LAMBDA r :
                      [db |-> r.db, status |-> IF r.raised THEN 500 ELSE 200,
                       ret |-> IF r.raised THEN Null ELSE e,
                       called |-> TRUE, raised |-> r.raised])
             ELSE [db |-> d1, status |-> 200, ret |-> e, called |-> FALSE,
                   raised |-> FALSE]

\* The handler: the store, the status of the answer, the episode returned,
\* whether the automation was called and whether it raised.
update_episode_request(d, e, upd, t, fault) ==
    IF e \notin DOMAIN d.episodes
    THEN [db |-> d, status |-> 404, ret |-> Null, called |-> FALSE, raised |-> FALSE]
    ELSE LET old_status == d.episodes[e].status
             row == [d.episodes[e] EXCEPT
                       !.status = IF upd.status # Unset THEN upd.status ELSE @,
                       !.client_approved_editing =
                           IF upd.client_approved_editing # Unset
                           THEN upd.client_approved_editing ELSE @,
                       !.client_approved_reels =
                           IF upd.client_approved_reels # Unset
                           THEN upd.client_approved_reels ELSE @]
             d1 == [d EXCEPT !.episodes[e] = row]
         IN  IF \/ old_status # row.status
                \/ upd.client_approved_editing # Unset
                \/ upd.client_approved_reels # Unset
             THEN Bind(TryAutomation(d1, e, t, fault), LAMBDA r :
                      [db |-> r.db, status |-> 200, ret |-> e,
                       called |-> TRUE, raised |-> r.raised])
             ELSE [db |-> d1, status |-> 200, ret |-> e, called |-> FALSE,
                   raised |-> FALSE]

(***************************************************************************)
(* Specification of the episode updates: from a store with two episodes of *)
(* the profiles above, at most MaxRequests requests, each with or without  *)
(* a failing automation step.                                              *)
(***************************************************************************)
MaxRequests == 1

\* The step that raises: none, or one of the six steps of the handler.
Faults == {Null} \cup (1..Len(EpisodeStages("recorded")))

\* Requests that carry one field, or a status together with an approval.
RequestUpdates ==
    EpisodeUpdates
    \cup {[NoUpdate EXCEPT !.status = s, !.client_approved_editing = a] :
             s \in {"recorded", "published"}, a \in {"approved", "rejected"}}

RequestInit ==
    /\ db \in {ProfileStore(f, g) : f \in EpisodeProfiles, g \in EpisodeProfiles}
    /\ now = 1
    /\ steps = 0
    /\ last = [op |-> "init", ep |-> Null, upd |-> NoUpdate, fault |-> Null,
               old |-> db, status |-> Null, ret |-> Null, called |-> FALSE,
               raised |-> FALSE]

UpdateEpisodeRequest(e, upd, fault) ==
    /\ steps < MaxRequests
    /\ steps' = steps + 1
    /\ \E r \in {update_episode_request(db, e, upd, now, fault)} :
           /\ db' = r.db
           /\ last' = [op |-> "update_episode", ep |-> e, upd |-> upd, fault |-> fault,
                       old |-> db, status |-> r.status, ret |-> r.ret,
                       called |-> r.called, raised |-> r.raised]
    /\ UNCHANGED now

NextRequests ==
    \E e \in EpisodeIds \cup {3}, upd \in RequestUpdates, fault \in Faults :
        UpdateEpisodeRequest(e, upd, fault)

SpecRequests == RequestInit /\ [][NextRequests]_vars

\* The value a request leaves in a field: the one it carries, else the old.
Carried(new, old) == IF new # Unset THEN new ELSE old

\* C34: update_episode commits the new values of the episode and then calls
\* process_episode_status_change exactly when the status changed or the
\* request carries an approval field; when the automation raises, the new
\* values stay on file and the request still answers with the episode.
C34_UpdateSurvivesAutomation ==
    (last.op = "update_episode" /\ last.ep \in EpisodeIds) =>
        LET old == last.old.episodes[last.ep]
            new == db.episodes[last.ep]
        IN  /\ new.status = Carried(last.upd.status, old.status)
            /\ new.client_approved_editing
                  = Carried(last.upd.client_approved_editing, old.client_approved_editing)
            /\ new.client_approved_reels
                  = Carried(last.upd.client_approved_reels, old.client_approved_reels)
            /\ last.called <=> \/ new.status # old.status
                               \/ last.upd.client_approved_editing # Unset
                               \/ last.upd.client_approved_reels # Unset
            /\ last.raised => last.called
            /\ last.status = 200 /\ last.ret = last.ep

\* The request set an episode to recorded, the automation raised in its
\* fourth step, after it had created the editing and reels tasks, and the
\* request answered with the episode.
C34_Witness ==
    /\ last.op = "update_episode"
    /\ last.raised /\ last.fault = 4
    /\ last.status = 200
    /\ db.episodes[last.ep].status = "recorded"
    /\ last.old.episodes[last.ep].status # "recorded"
    /\ TasksOf(db, last.ep, "editing") # {} /\ TasksOf(last.old, last.ep, "editing") = {}

(***************************************************************************)
(* The two handlers statement by statement.  A handler under way is a      *)
(* frame: its name and the statements it has left; a statement is a step   *)
(* that changes the store (a transition application) or the call of a      *)
(* handler, which puts a frame on the stack.                               *)
(***************************************************************************)
Handlers == {"process_task_status_change", "process_episode_status_change"}

\* Mutant: the task handler calls the episode handler a second time.
HandlerBody_calls_twice(fn, d, g) ==
    IF fn = "process_episode_status_change"
    THEN EpisodeStages(d.episodes[g.ep].status)
    ELSE IF g.old = "done" \/ TaskById(d, g.task).status # "done" THEN <<>>
    ELSE IF TaskById(d, g.task).type = "studio_preparation"
         THEN <<"create_recording_task">>
    ELSE IF TaskById(d, g.task).type = "recording"
         THEN <<"set_recorded", "process_episode_status_change",
                "process_episode_status_change">>
    ELSE <<>>

\* The statements the handler fn runs when it is entered on the store d for
\* the trigger g.
HandlerBody(fn, d, g) ==
    IF fn = "process_episode_status_change"
    THEN EpisodeStages(d.episodes[g.ep].status)
    ELSE IF g.old = "done" \/ TaskById(d, g.task).status # "done" THEN <<>>
    ELSE IF TaskById(d, g.task).type = "studio_preparation"
         THEN <<"create_recording_task">>
    ELSE IF TaskById(d, g.task).type = "recording"
         THEN <<"set_recorded", "process_episode_status_change">>
    ELSE <<>>

\* The handler a trigger invokes.
HandlerOf(g) ==
    IF g.task = Null THEN "process_episode_status_change"
    ELSE "process_task_status_change"

\* One handler has just been invoked on one of the two episodes.
HandlerInit ==
    /\ db \in {ProfileStore(f, g) : f \in EpisodeProfiles, g \in EpisodeProfiles}
    /\ now = 1
    /\ steps = 0
    /\ \E e \in EpisodeIds : \E g \in Triggers(db, e) :
          last = [op |-> "handlers", start |-> db, trigger |-> g,
                  stack |-> <<[fn |-> HandlerOf(g),
                               left |-> HandlerBody(HandlerOf(g), db, g)]>>,
                  entered |-> [fn \in Handlers |-> IF fn = HandlerOf(g) THEN 1 ELSE 0],
                  applied |-> 0]

Top == last.stack[Len(last.stack)]

\* The stack with the first statement of its top frame taken off.
Advanced == [last.stack EXCEPT ![Len(last.stack)].left = Tail(@)]

\* The next statement is a step on the store.
Apply ==
    /\ last.stack # <<>> /\ Top.left # <<>>
    /\ Head(Top.left) \notin Handlers
    /\ db' = RunStage(Head(Top.left), db, last.trigger.ep, now)
    /\ last' = [last EXCEPT !.stack = Advanced, !.applied = @ + 1]
    /\ UNCHANGED <<now, steps>>

\* The next statement is the call of a handler.
Enter ==
    /\ last.stack # <<>> /\ Top.left # <<>>
    /\ Head(Top.left) \in Handlers
    /\ last' = [last EXCEPT
                  !.stack = Append(Advanced,
                                   [fn |-> Head(Top.left),
                                    left |-> HandlerBody(Head(Top.left), db, last.trigger)]),
                  !.entered[Head(Top.left)] = @ + 1]
    /\ UNCHANGED <<db, now, steps>>

\* The handler on top has no statement left.
Return ==
    /\ last.stack # <<>> /\ Top.left = <<>>
    /\ last' = [last EXCEPT !.stack = SubSeq(@, 1, Len(@) - 1)]
    /\ UNCHANGED <<db, now, steps>>

NextHandlers == Apply \/ Enter \/ Return

\* A handler is one synchronous call: once invoked it runs on.
SpecHandlers == HandlerInit /\ [][NextHandlers]_vars /\ WF_vars(NextHandlers)

\* C35: an invocation of process_task_status_change or of
\* process_episode_status_change comes to its end, after at most one step
\* more than process_episode_status_change has; the task handler enters the
\* episode handler at most once, and the episode handler never enters the
\* task handler.
C35_HandlersTerminate ==
    /\ [](/\ last.applied <= Len(EpisodeStages("recorded")) + 1
          /\ last.entered["process_episode_status_change"] <= 1
          /\ last.entered["process_task_status_change"]
                = IF last.trigger.task = Null THEN 0 ELSE 1
          /\ Len(last.stack) <= 2)
    /\ <>(last.stack = <<>>)

\* The task handler was invoked for a recording task that became done, it
\* entered the episode handler, which completed the studio preparation, and
\* both have returned.
C35_Witness ==
    /\ last.op = "handlers"
    /\ last.stack = <<>>
    /\ last.trigger.task # Null
    /\ last.entered["process_episode_status_change"] = 1
    /\ last.applied = Len(EpisodeStages("recorded")) + 1
    /\ db = RunTrigger(last.start, last.trigger, now)
    /\ \E x \in TasksOf(db, last.trigger.ep, "editing") : x \notin last.start.tasks

(***************************************************************************)
(* Specification of the order inside one call: one handler runs statement  *)
(* by statement, as above, also on an episode that was put on file as      *)
(* recorded and approved and has no task yet (POST /episodes takes the     *)
(* status and the approvals as they are sent and creates no task).  The    *)
(* stores have at most one task of a type per episode.                     *)
(***************************************************************************)
ApprovedProfile ==
    [status |-> "recorded", editing |-> "approved", reels |-> "approved", tasks |-> <<>>]

OrderInit ==
    /\ db \in {ProfileStore(f, g) : f \in EpisodeProfiles \cup {ApprovedProfile},
                                    g \in EpisodeProfiles}
    /\ now = 1
    /\ steps = 0
    /\ \E g \in Triggers(db, 1) :
          last = [op |-> "handlers", start |-> db, trigger |-> g,
                  stack |-> <<[fn |-> HandlerOf(g),
                               left |-> HandlerBody(HandlerOf(g), db, g)]>>,
                  entered |-> [fn \in Handlers |-> IF fn = HandlerOf(g) THEN 1 ELSE 0],
                  applied |-> 0]

SpecOrder == OrderInit /\ [][NextHandlers]_vars

\* The episode e of the store d is recorded and approved twice and has no
\* editing, reels or publishing task.
ApprovedWithoutTasks(d, e) ==
    /\ d.episodes[e].status = "recorded"
    /\ BothApproved(d, e)
    /\ \A ty \in {"editing", "reels", "publishing"} : TasksOf(d, e, ty) = {}

\* The tasks of type ty of episode e in d are one task, done at time t.
OneDoneAt(d, e, ty, t) ==
    /\ Cardinality(TasksOf(d, e, ty)) = 1
    /\ \A x \in TasksOf(d, e, ty) : x.status = "done" /\ x.completed_at = t

RecordingDates == {Null, 0, 5, 30, 60, 100}
CreationTimes == {0, 5, 60, 120}

DueInit ==
    /\ \E rd \in RecordingDates :
          db = [episodes |-> [e \in EpisodeIds |->
                                 [InitialEpisode(e) EXCEPT
                                    !.recording_date = IF e = 1 THEN rd ELSE Null,
                                    !.client_approved_editing = "approved",
                                    !.client_approved_reels = "approved"]],
                tasks |-> {},
                nextId |-> 1]
    /\ now \in CreationTimes
    /\ last = [op |-> "init", ep |-> Null, task |-> Null, old |-> Unset,
               upd |-> NoUpdate, ret |-> Null, again |-> FALSE]
    /\ steps = 0

NextDue ==
    \/ \E e \in EpisodeIds : CreateStudioPreparationTask(e)
    \/ \E e \in EpisodeIds : CreateRecordingTask(e)
    \/ \E e \in EpisodeIds : CreateEditingTask(e)
    \/ \E e \in EpisodeIds : CreateReelsTask(e)
    \/ \E e \in EpisodeIds : CreatePublishingTask(e)

SpecDue == DueInit /\ [][NextDue]_vars

\* The larger of two times.
Later(a, b) == IF a >= b THEN a ELSE b

\* C36: at its creation a studio preparation is due at the later of one
\* hour before the recording and now, a recording task at the later of the
\* recording and now, so neither is due in the past and a new studio
\* preparation is not stale; an editing or reels task is due two days after
\* the recording, in the past or not; and a task of an episode without
\* recording date has no due date.
C36_DueDates ==
    \A x \in db.tasks :
        LET rd == db.episodes[x.episode_id].recording_date
        IN  IF rd = Null \/ x.type = "publishing" THEN x.due_date = Null
            ELSE /\ x.type = "studio_preparation" =>
                       /\ x.due_date = Later(rd - HOUR, now)
                       /\ x.due_date >= now
                       /\ x \notin StaleTasks(db, now)
                 /\ x.type = "recording" =>
                       x.due_date = Later(rd, now) /\ x.due_date >= now
                 /\ x.type \in {"editing", "reels"} => x.due_date = rd + 2 * DAY

\* The episode was recorded at hour 5 and its tasks are created at hour
\* 60: the studio preparation and the recording task are due now, the
\* editing task was due at hour 53.
C36_Witness ==
    /\ now = 60
    /\ db.episodes[1].recording_date = 5
    /\ \E x \in TasksOf(db, 1, "studio_preparation") : x.due_date = 60
    /\ \E x \in TasksOf(db, 1, "recording") : x.due_date = 60
    /\ \E x \in TasksOf(db, 1, "editing") : x.due_date = 53
    /\ last.op = "create_editing_task"

(***************************************************************************)
(* The podcast API: podcasts and their aliases.  A handler returns the     *)
(* store, the status of the HTTP answer and the row (or rows) it answers   *)
(* with; an alias row has the id the store hands out next.                 *)
(***************************************************************************)
NoRow == [id |-> Null, podcast_id |-> Null, alias |-> NoneStr]

\* "(raw or '').strip()"
AliasStr(raw) == IF raw = NoneStr THEN <<>> ELSE Strip(raw)

\* "aliases: Optional[List[str]] = None": the list that was left out.
NoAliases == <<NoneStr>>

\* The loop of create_podcast over the aliases asked for: the rows it adds
\* to the session.  The session does not flush before a query
\* (autoflush=False), so "existing" sees the committed rows only.
RECURSIVE PendingAliases(_, _, _, _)
PendingAliases(d, podcast_id, aliases, pending) ==
    IF aliases = <<>> THEN pending
    ELSE Bind(AliasStr(Head(aliases)), LAMBDA alias_str :
         IF alias_str = <<>>
         THEN PendingAliases(d, podcast_id, Tail(aliases), pending)
         ELSE IF \E existing \in d.aliases : existing.alias = alias_str
         THEN PendingAliases(d, podcast_id, Tail(aliases), pending)
         ELSE PendingAliases(d, podcast_id, Tail(aliases),
                  Append(pending, [id |-> d.nextId + Len(pending),
                                   podcast_id |-> podcast_id,
                                   alias |-> alias_str])))

\* "alias = Column(String, nullable=False, unique=True, index=True)": the
\* commit of rows that repeat an alias value raises IntegrityError.
UniqueAliases(rows) ==
    \A i, j \in DOMAIN rows : rows[i].alias = rows[j].alias => i = j

\* POST /podcasts.  The podcast is committed before the aliases are looked
\* at; a commit of the aliases that fails leaves none of them behind.
create_podcast(d, name, aliases) ==
    Bind(Cardinality(d.podcasts) + 1, LAMBDA id :
    Bind([d EXCEPT !.podcasts = @ \cup {[id |-> id, name |-> name]}], LAMBDA d1 :
    Bind(PendingAliases(d1, id, IF aliases = NoAliases THEN <<>> ELSE aliases, <<>>),
         LAMBDA pending :
        IF UniqueAliases(pending)
        THEN [db |-> [d1 EXCEPT !.aliases = @ \cup {pending[i] : i \in DOMAIN pending},
                                !.nextId = @ + Len(pending)],
              status |-> 200, ret |-> id]
        ELSE [db |-> d1, status |-> 500, ret |-> Null])))

\* Mutant: the alias is taken as it was sent.
add_podcast_alias_as_sent(d, podcast_id, alias) ==
    IF PodcastById(d, podcast_id) = Null
    THEN [db |-> d, status |-> 404, ret |-> NoRow]
    ELSE Bind(IF alias = NoneStr THEN <<>> ELSE alias, LAMBDA alias_str :
         IF alias_str = <<>>
         THEN [db |-> d, status |-> 400, ret |-> NoRow]
         ELSE LET existing == {a \in d.aliases : a.alias = alias_str}
              IN  IF existing # {}
                  THEN IF First(existing).podcast_id = podcast_id
                       THEN [db |-> d, status |-> 200, ret |-> First(existing)]
                       ELSE [db |-> d, status |-> 400, ret |-> NoRow]
                  ELSE Bind([id |-> d.nextId, podcast_id |-> podcast_id,
                             alias |-> alias_str], LAMBDA alias_row :
                       [db |-> [d EXCEPT !.aliases = @ \cup {alias_row},
                                         !.nextId = @ + 1],
                        status |-> 200, ret |-> alias_row]))

\* POST /podcasts/{podcast_id}/aliases
add_podcast_alias(d, podcast_id, alias) ==
    IF PodcastById(d, podcast_id) = Null
    THEN [db |-> d, status |-> 404, ret |-> NoRow]
    ELSE Bind(AliasStr(alias), LAMBDA alias_str :
         IF alias_str = <<>>
         THEN [db |-> d, status |-> 400, ret |-> NoRow]
         ELSE LET existing == {a \in d.aliases : a.alias = alias_str}
              IN  IF existing # {}
                  THEN IF First(existing).podcast_id = podcast_id
                       THEN [db |-> d, status |-> 200, ret |-> First(existing)]
                       ELSE [db |-> d, status |-> 400, ret |-> NoRow]
                  ELSE Bind([id |-> d.nextId, podcast_id |-> podcast_id,
                             alias |-> alias_str], LAMBDA alias_row :
                       [db |-> [d EXCEPT !.aliases = @ \cup {alias_row},
                                         !.nextId = @ + 1],
                        status |-> 200, ret |-> alias_row]))

\* DELETE /podcasts/{podcast_id}/aliases/{alias_id}
delete_podcast_alias(d, podcast_id, alias_id) ==
    LET alias_row == {a \in d.aliases : a.id = alias_id /\ a.podcast_id = podcast_id}
    IN  IF alias_row = {}
        THEN [db |-> d, status |-> 404, ret |-> NoRow]
        ELSE [db |-> [d EXCEPT !.aliases = @ \ alias_row], status |-> 200, ret |-> NoRow]

(***************************************************************************)
(* Specification of the podcast API: from a store without podcasts, at     *)
(* most MaxPodcastCalls calls of the three handlers.                       *)
(***************************************************************************)
MaxPodcastCalls == 3

\* The alias texts a request may carry: empty, blank, "a" (also between
\* blanks), "A" and "b".
AliasInputs == {<<>>, <<" ">>, <<"a">>, <<" ", "a", " ">>, <<"A">>, <<"b">>}

\* The aliases of a create_podcast request: left out, or up to two texts.
AliasLists ==
    {NoAliases, <<>>} \cup {<<x>> : x \in AliasInputs} \cup (AliasInputs \X AliasInputs)

PodcastIds == {1, 2, 3}

PodcastCall(op, podcast_id, alias, alias_id, r) ==
    [op |-> op, podcast_id |-> podcast_id, alias |-> alias, alias_id |-> alias_id,
     old |-> db.aliases, status |-> r.status, ret |-> r.ret]

PodcastInit ==
    /\ db = [PriorStore EXCEPT !.podcasts = {}, !.aliases = {}, !.nextId = 1]
    /\ now = 0
    /\ last = [op |-> "none", podcast_id |-> Null, alias |-> NoneStr, alias_id |-> Null,
               old |-> {}, status |-> Null, ret |-> Null]
    /\ steps = 0

PodcastStep(r, call) ==
    /\ steps < MaxPodcastCalls
    /\ db' = r.db
    /\ last' = call
    /\ steps' = steps + 1
    /\ UNCHANGED now

CreatePodcast(aliases) ==
    \E r \in {create_podcast(db, <<"N">>, aliases)} :
        PodcastStep(r, PodcastCall("create_podcast", r.ret, aliases, Null, r))

AddPodcastAlias(podcast_id, alias) ==
    \E r \in {add_podcast_alias(db, podcast_id, alias)} :
        PodcastStep(r, PodcastCall("add_podcast_alias", podcast_id, alias, Null, r))

DeletePodcastAlias(podcast_id, alias_id) ==
    \E r \in {delete_podcast_alias(db, podcast_id, alias_id)} :
        PodcastStep(r, PodcastCall("delete_podcast_alias", podcast_id, NoneStr, alias_id, r))

NextPodcasts ==
    \/ \E aliases \in AliasLists : CreatePodcast(aliases)
    \/ \E podcast_id \in PodcastIds, alias \in AliasInputs :
           AddPodcastAlias(podcast_id, alias)
    \/ \E podcast_id \in PodcastIds, alias_id \in 1..(db.nextId) :
           DeletePodcastAlias(podcast_id, alias_id)

SpecPodcasts == PodcastInit /\ [][NextPodcasts]_vars

\* C31: each alias value is on file once, so it belongs to one podcast; and
\* add_podcast_alias answers a blank alias, or an alias another podcast
\* holds, with an error and leaves the aliases as they were, and answers an
\* alias the podcast holds already with the row on file, adding none.
C31_AliasUnique ==
    /\ \A a, b \in db.aliases : a.alias = b.alias => a = b
    /\ last.op = "add_podcast_alias" /\ last.status # 404 =>
          LET held == {a \in last.old : a.alias = Strip(last.alias)}
          IN  /\ Strip(last.alias) = <<>> =>
                    last.status = 400 /\ db.aliases = last.old
              /\ (\E a \in held : a.podcast_id # last.podcast_id) =>
                    last.status = 400 /\ db.aliases = last.old
              /\ (\E a \in held : a.podcast_id = last.podcast_id) =>
                    /\ last.status = 200 /\ last.ret \in held
                    /\ db.aliases = last.old

\* add_podcast_alias has refused an alias that another podcast holds, whose
\* text came between blanks.
C31_Witness ==
    /\ last.op = "add_podcast_alias" /\ last.status = 400
    /\ last.alias # Strip(last.alias)
    /\ \E a \in db.aliases : a.alias = Strip(last.alias) /\ a.podcast_id # last.podcast_id
    /\ Cardinality(db.podcasts) = 2

(***************************************************************************)
(* Further properties of the workflow automation.                          *)
(***************************************************************************)
\* The ids of the tasks of type ty of episode e in the store d.
IdsOf(d, e, ty) == {x.id : x \in TasksOf(d, e, ty)}

\* The rows of type ty, of all episodes.
RowsOfType(d, ty) == {x \in d.tasks : x.type = ty}

\* C32: process_episode_status_change creates the editing and reels tasks
\* and completes the studio preparation only for an episode whose status is
\* recorded; for any other status it creates no editing or reels task and
\* leaves every studio preparation and recording task as it was, and still
\* brings the editing and reels tasks in line with the approvals and leaves
\* a publishing task behind when both approvals are approved.
C32_OnlyWhenRecorded ==
    [][\A e \in EpisodeIds :
          (last'.op = "process_episode_status_change" /\ last'.ep = e /\ steps' # steps)
          => IF db.episodes[e].status = "recorded"
             THEN /\ \A ty \in {"editing", "reels"} : TasksOf(db', e, ty) # {}
                  /\ \A x \in TasksOf(db', e, "studio_preparation") : x.status = "done"
             ELSE /\ \A ty \in {"editing", "reels"} : IdsOf(db', e, ty) = IdsOf(db, e, ty)
                  /\ \A ty \in {"studio_preparation", "recording"} :
                        RowsOfType(db', ty) = RowsOfType(db, ty)
                  /\ \A ty \in {"editing", "reels"} : \A x \in TasksOf(db, e, ty) :
                        SyncRow(x, ApprovalFor(db, e, ty), now) \in db'.tasks
                  /\ BothApproved(db, e) => TasksOf(db', e, "publishing") # {}]_vars

\* The status handler ran on an episode that is not recorded and has an
\* open studio preparation and both approvals: the preparation is still
\* open, there is no editing or reels task, and there is a publishing task.
C32_Witness ==
    /\ last.op = "process_episode_status_change"
    /\ db.episodes[last.ep].status # "recorded"
    /\ \E x \in TasksOf(db, last.ep, "studio_preparation") : x.status # "done"
    /\ TasksOf(db, last.ep, "editing") = {} /\ TasksOf(db, last.ep, "reels") = {}
    /\ BothApproved(db, last.ep)
    /\ TasksOf(db, last.ep, "publishing") # {}

\* C33: process_daily_workflow deletes the stale studio preparations, and
\* commits the deletion, before it fetches the episodes of the day and
\* before it creates a task: after the job no task that was stale is on
\* file, and when the creation of the tasks raises, the failure reaches the
\* caller and the tasks on file are the ones from before without the stale
\* ones.
C33_StaleDeletedFirst ==
    [][(last'.op = "process_daily_workflow" /\ steps' # steps)
          => /\ \A x \in StaleTasks(db, now) : x \notin db'.tasks
             /\ (last'.fault /\ last'.eps # <<>>)
                   => /\ last'.raised /\ last'.status = 500
                      /\ db'.tasks = db.tasks \ StaleTasks(db, now)]_vars

\* The job ran at hour 40 and raised while creating the tasks of the day;
\* the studio preparation of the first episode, due at hour 9, is gone.
C33_Witness ==
    /\ last.op = "process_daily_workflow"
    /\ last.raised /\ last.eps # <<>>
    /\ now = 40
    /\ TasksOf(db, 1, "studio_preparation") = {}
    /\ TasksOf(PriorStore, 1, "studio_preparation") # {}
    /\ StaleTasks(PriorStore, 40) = TasksOf(PriorStore, 1, "studio_preparation")

\* C37: no operation of the automation engine deletes or changes a
\* publishing task that is on file (a task update of the API may): each
\* publishing row is the same after the step, also when the step is the
\* status handler, or an episode update, with an approval that is rejected
\* or pending.
C37_PublishingKept ==
    [][last'.op # "update_task"
          => \A x \in RowsOfType(db, "publishing") : x \in db'.tasks]_vars

\* The editing was rejected after the publishing task was made, the status
\* handler ran, and the publishing task is on file as it was created.
C37_Witness ==
    /\ last.op = "process_episode_status_change"
    /\ db.episodes[last.ep].client_approved_editing = "rejected"
    /\ db.episodes[last.ep].client_approved_reels = "approved"
    /\ \E x \in TasksOf(db, last.ep, "publishing") : x.status = "not_started"

\* The place of a status in the order of models.EpisodeStatus.
StatusOrder == <<"not_started", "recorded", "in_editing", "sent_to_client", "published">>

Rank(status) == CHOOSE i \in DOMAIN StatusOrder : StatusOrder[i] = status

\* C39: no operation of the automation engine moves the status of an
\* episode backward in the order not_started, recorded, in_editing,
\* sent_to_client, published (an episode update of the API may): after
\* process_task_status_change for a recording task that became done, an
\* episode that was in_editing, sent_to_client or published has the status
\* it had.
C39_NeverBackward ==
    [][last'.op # "update_episode"
          => \A e \in EpisodeIds :
                Rank(db'.episodes[e].status) >= Rank(db.episodes[e].status)]_vars
====
